---------------------------- MODULE Spec2Model ----------------------------
(***************************************************************************)
(* Payment promises: construction, the two-step signing chain, settlement  *)
(* encoding (package promises), the withdraw request (package balances)    *)
(* and the channel contract calls of the generated bindings.               *)
(*                                                                         *)
(* Byte strings are sequences of integers 0..255.  Keccak256, Sign and     *)
(* Ecrecover belong to go-ethereum; they are modelled by stand-ins that    *)
(* keep the properties the library guarantees (see each definition).       *)
(***************************************************************************)
EXTENDS Integers, Sequences, FiniteSets, TLC

(***************************************************************************)
(* Bounds                                                                  *)
(***************************************************************************)
MaxCalls == 2      \* ledger ClearPromise calls recorded before the log is full
MaxNonce == 3      \* cheque nonces are drawn from 0..MaxNonce
MaxMines == 2      \* times the chain advances in one run
MaxReconnects == 3 \* Reconnect calls in one run
MaxLogs == 3       \* logs a subscription delivers in one run
MaxIdentities == 3 \* identities handed to one RegisterIdentities call

(***************************************************************************)
(* Byte helpers                                                            *)
(***************************************************************************)
Nil == <<>>

Zeros(n) == [i \in 1..n |-> 0]

Pow256(i) == IF i = 0 THEN 1 ELSE IF i = 1 THEN 256 ELSE IF i = 2 THEN 65536 ELSE 16777216

\* base-256 digit i (0 = least significant) of a non-negative integer
Digit(n, i) == IF i > 3 THEN 0 ELSE (n \div Pow256(i)) % 256

\* abi.U256(big.NewInt(n)): n mod 2^256 as 32 big-endian bytes; a negative n
\* becomes its two's complement word
U256(n) ==
    [i \in 1..32 |-> IF n >= 0 THEN Digit(n, 32 - i)
                               ELSE 255 - Digit((-n) - 1, 32 - i)]

\* the int64 whose U256 word is w (inverse of U256 on the model's values)
FromU256(w) ==
    IF w[1] = 0
    THEN w[29] * 16777216 + w[30] * 65536 + w[31] * 256 + w[32]
    ELSE -((255 - w[29]) * 16777216 + (255 - w[30]) * 65536
            + (255 - w[31]) * 256 + (255 - w[32])) - 1

\* position weight of byte i in the digest stand-in
Weight(i) == (i * i * i + 31 * i + 7) % 9973

RECURSIVE Fold(_, _, _)
Fold(data, lo, hi) ==
    IF lo > hi THEN 0
    ELSE IF lo = hi THEN (data[lo] + 1) * Weight(lo)
    ELSE LET mid == (lo + hi) \div 2
         IN  Fold(data, lo, mid) + Fold(data, mid + 1, hi)

\* crypto.Keccak256(parts...): the digest of the concatenation of the parts.
\* Stand-in: a 32-byte word computed from every byte and the length of the
\* concatenation; it has no collisions on the byte strings the model hashes.
Keccak256(data) == U256((Fold(data, 1, Len(data)) + 1000003 * Len(data)) % 2147483647)

(***************************************************************************)
(* Identities and the signature library                                    *)
(***************************************************************************)
\* registry.MystIdentity private keys; 0 stands for invalid key material
ValidKeys == {1, 2}
Keys == {0} \cup ValidKeys

\* the public key recovered when a signature does not belong to the hash
GarbagePub == 9

\* crypto.PubkeyToAddress: 20 bytes derived from the public key
PubkeyToAddress(pub) == [i \in 1..20 |-> IF i = 20 THEN pub ELSE 16 + pub]

AddressOf(k) == PubkeyToAddress(k)

\* crypto.Sign(hash, prv): 65 bytes R || S || V, or an error (Nil) when the
\* hash is not 32 bytes or the key is invalid.  Stand-in: R carries the signed
\* digest, S the key, V the recovery id.
KeyFails(prv) == prv \notin ValidKeys

Sign(hash, prv) ==
    IF Len(hash) # 32 \/ KeyFails(prv) THEN Nil
    ELSE hash \o U256(prv) \o <<prv % 2>>

SigR(sig) == SubSeq(sig, 1, 32)
SigS(sig) == SubSeq(sig, 33, 64)

\* crypto.Ecrecover fails on a malformed signature: wrong length, a recovery
\* id above 3, or r/s outside the curve range
EcrecoverFails(hash, sig) ==
    \/ Len(hash) # 32
    \/ Len(sig) # 65
    \/ sig[65] >= 4
    \/ SigR(sig) = Zeros(32)
    \/ SigS(sig) = Zeros(32)

\* whether sig is a signature over hash by the key it names
SignedOver(hash, sig) ==
    /\ ~EcrecoverFails(hash, sig)
    /\ SigR(sig) = hash
    /\ FromU256(SigS(sig)) \in ValidKeys
    /\ sig[65] = FromU256(SigS(sig)) % 2

\* crypto.Ecrecover(hash, sig) on a well-formed signature: the signer's
\* public key when sig signs hash, an unrelated public key otherwise
Ecrecover(hash, sig) ==
    IF SignedOver(hash, sig) THEN FromU256(SigS(sig)) ELSE GarbagePub

(***************************************************************************)
(* Package promises: Promise and the signing chain                         *)
(***************************************************************************)
issuerPrefix == <<73, 115, 115, 117, 101, 114, 32, 112, 114, 101, 102, 105, 120, 58>>

receiverPrefix == <<82, 101, 99, 101, 105, 118, 101, 114, 32, 112, 114, 101, 102, 105, 120, 58>>

withDrawPrefix == <<87, 105, 116, 104, 100, 114, 97, 119, 32, 114, 101, 113, 117, 101, 115, 116, 58>>

Addr(b) == [i \in 1..20 |-> b]

Receivers == {Addr(170), Addr(187)}
SeqNos == {1}
Amounts == {90, 100}

Promise == [Receiver : Receivers, SeqNo : SeqNos, Amount : Amounts]

\* SeqNo and Amount are int64: every value, negative ones too, is a Promise
AnyPromise == [Receiver : Receivers, SeqNo : {-1, 0, 1, 2}, Amount : {-1, 90, 100}]

\* the encoding with the two words exchanged
HashPreimage_AmountFirst(p) == issuerPrefix \o p.Receiver \o U256(p.Amount) \o U256(p.SeqNo)

\* the encoding that leaves the sequence number out
HashPreimage_NoSeqNo(p) == issuerPrefix \o p.Receiver \o U256(p.Amount)

\* the bytes Promise.HashBytes hands to Keccak256
HashPreimage(p) == issuerPrefix \o p.Receiver \o U256(p.SeqNo) \o U256(p.Amount)

HashBytes(p) == Keccak256(HashPreimage(p))

NoPromise == [Receiver |-> Zeros(20), SeqNo |-> 0, Amount |-> 0]

\* type IssuedPromise struct { Promise; IssuerSignature []byte }
NoIssued == [Promise |-> NoPromise, IssuerSignature |-> Nil]

\* type ReceivedPromise struct { IssuedPromise; ReceiverSignature []byte }
NoReceived == [IssuedPromise |-> NoIssued, ReceiverSignature |-> Nil]

\* SignByPayer signing a digest other than the one SignByReceiver recovers from
SignByPayer_OtherHash(promise, payer) ==
    LET hash == Keccak256(receiverPrefix \o HashPreimage(promise))
        signature == Sign(hash, payer)
    IN  IF signature = Nil
        THEN [ptr |-> FALSE, val |-> NoIssued, err |-> "SigningError"]
        ELSE [ptr |-> TRUE,
              val |-> [Promise |-> promise, IssuerSignature |-> signature],
              err |-> "nil"]

\* SignByPayer that does not look at the error of crypto.Sign
SignByPayer_NoErrCheck(promise, payer) ==
    [ptr |-> TRUE,
     val |-> [Promise |-> promise, IssuerSignature |-> Sign(HashBytes(promise), payer)],
     err |-> "nil"]

\* SignByPayer(promise, payer): (value, err); value is meaningful iff ptr
SignByPayer(promise, payer) ==
    LET hash == HashBytes(promise)
        signature == Sign(hash, payer)
    IN  IF signature = Nil
        THEN [ptr |-> FALSE, val |-> NoIssued, err |-> "SigningError"]
        ELSE [ptr |-> TRUE,
              val |-> [Promise |-> promise, IssuerSignature |-> signature],
              err |-> "nil"]

\* the counter-signature preimage without the payer address
CounterPreimage_NoPayer(promise, payerAddr) ==
    receiverPrefix \o HashBytes(promise.Promise)

\* the counter-signature preimage tagged with the issuer's prefix
CounterPreimage_IssuerTag(promise, payerAddr) ==
    issuerPrefix \o HashBytes(promise.Promise) \o payerAddr

\* the bytes SignByReceiver hands to Keccak256 once it has the payer address
CounterPreimage(promise, payerAddr) ==
    receiverPrefix \o HashBytes(promise.Promise) \o payerAddr

\* SignByReceiver that drops the Ecrecover error and goes on with whatever
\* public key came back
SignByReceiver_IgnoreRecoverErr(promise, receiver, recovers) ==
    LET hb == HashBytes(promise.Promise)
        payerAddr == IF EcrecoverFails(hb, promise.IssuerSignature)
                     THEN Zeros(20)
                     ELSE PubkeyToAddress(Ecrecover(hb, promise.IssuerSignature))
        pre == CounterPreimage(promise, payerAddr)
        sig == Sign(Keccak256(pre), receiver)
    IN  [ptr |-> TRUE,
         val |-> [IssuedPromise |-> promise, ReceiverSignature |-> sig],
         err |-> "nil", pre |-> pre]

\* SignByReceiver that signs the promise again in the issuer's place before
\* counter-signing it
SignByReceiver_Reissue(promise, receiver, recovers) ==
    LET hb == HashBytes(promise.Promise)
        failed == \/ EcrecoverFails(hb, promise.IssuerSignature)
                  \/ (~SignedOver(hb, promise.IssuerSignature) /\ ~recovers)
        reissued == [promise EXCEPT !.IssuerSignature = Sign(hb, receiver)]
        pre == CounterPreimage(promise, PubkeyToAddress(receiver))
        sig == Sign(Keccak256(pre), receiver)
    IN  IF failed
        THEN [ptr |-> FALSE, val |-> NoReceived, err |-> "InvalidSignature",
              pre |-> Nil]
        ELSE [ptr |-> TRUE,
              val |-> [IssuedPromise |-> reissued, ReceiverSignature |-> sig],
              err |-> "nil", pre |-> pre]

\* SignByReceiver that returns the promise without its issuer signature
SignByReceiver_BarePromise(promise, receiver, recovers) ==
    LET hb == HashBytes(promise.Promise)
        failed == \/ EcrecoverFails(hb, promise.IssuerSignature)
                  \/ (~SignedOver(hb, promise.IssuerSignature) /\ ~recovers)
        pre == CounterPreimage(promise, PubkeyToAddress(Ecrecover(hb, promise.IssuerSignature)))
        sig == Sign(Keccak256(pre), receiver)
    IN  IF failed
        THEN [ptr |-> FALSE, val |-> NoReceived, err |-> "InvalidSignature",
              pre |-> Nil]
        ELSE [ptr |-> TRUE,
              val |-> [IssuedPromise |-> [promise EXCEPT !.IssuerSignature = Nil],
                       ReceiverSignature |-> sig],
              err |-> "nil", pre |-> pre]

\* SignByReceiver(promise, receiver).  recovers: the outcome of Ecrecover on
\* a well-formed signature that does not sign the hash (the library then
\* yields either an unrelated key or an error).  pre is the preimage that
\* was hashed and signed, Nil when none was.
SignByReceiver(promise, receiver, recovers) ==
    LET hb == HashBytes(promise.Promise)
        failed == \/ EcrecoverFails(hb, promise.IssuerSignature)
                  \/ (~SignedOver(hb, promise.IssuerSignature) /\ ~recovers)
        publicKey == Ecrecover(hb, promise.IssuerSignature)
        payerAddr == PubkeyToAddress(publicKey)
        pre == CounterPreimage(promise, payerAddr)
        sig == Sign(Keccak256(pre), receiver)
    IN  IF failed
        THEN [ptr |-> FALSE, val |-> NoReceived, err |-> "InvalidSignature",
              pre |-> Nil]
        ELSE [ptr |-> TRUE,
              val |-> [IssuedPromise |-> promise, ReceiverSignature |-> sig],
              err |-> "nil", pre |-> pre]

(***************************************************************************)
(* RegisterIdentities of PromiseClearing and of PromiseClearer             *)
(***************************************************************************)
\* the two receiver types that have the method
Clearers == {"PromiseClearing", "PromiseClearer"}

\* the registry function each of them calls for an identity
CreateFn(clearer) ==
    IF clearer = "PromiseClearing" THEN "CreateRegistrationData"
    ELSE "CreateProofOfIdentity"

\* pc.RegisterIdentity(...) for the identity at position i: the arguments
\* are taken from what the registry created for it
RegisterCall(clearer, identity, i) ==
    [method |-> "RegisterIdentity", at |-> i, identity |-> identity.key,
     arguments |-> IF clearer = "PromiseClearing"
                   THEN <<"pubKeyPart1", "pubKeyPart2", "sig.V", "sig.R", "sig.S">>
                   ELSE <<"proof.RandomNumber", "proof.Signature">>]

\* an identity with the answers the registry and the ledger give for it
Identities == [key : ValidKeys, data : {"nil", "ErrData"}, ledger : {"nil", "ErrLedger"}]

\* the loop that goes on with the next identity after a failure and returns
\* the first error at the end
RECURSIVE RegisterFrom_Continue(_, _, _, _)
RegisterFrom_Continue(clearer, identities, i, done) ==
    IF i > Len(identities)
    THEN done
    ELSE LET identity == identities[i]
             created == Append(done.created,
                               [fn |-> CreateFn(clearer), at |-> i])
             err == IF identity.data # "nil" THEN identity.data ELSE identity.ledger
         IN  RegisterFrom_Continue(clearer, identities, i + 1,
                 [err |-> IF done.err = "nil" THEN err ELSE done.err,
                  created |-> created,
                  calls |-> IF identity.data # "nil" THEN done.calls
                            ELSE Append(done.calls,
                                        RegisterCall(clearer, identity, i))])

\* the loop from position i on; done holds what was created and submitted
\* before it
RECURSIVE RegisterFrom(_, _, _, _)
RegisterFrom(clearer, identities, i, done) ==
    IF i > Len(identities)
    THEN [done EXCEPT !.err = "nil"]
    ELSE LET identity == identities[i]
             created == Append(done.created,
                               [fn |-> CreateFn(clearer), at |-> i])
             calls == Append(done.calls, RegisterCall(clearer, identity, i))
         IN  IF identity.data # "nil"
             THEN [err |-> identity.data, created |-> created, calls |-> done.calls]
             ELSE IF identity.ledger # "nil"
             THEN [err |-> identity.ledger, created |-> created, calls |-> calls]
             ELSE RegisterFrom(clearer, identities, i + 1,
                               [err |-> "nil", created |-> created, calls |-> calls])

\* RegisterIdentities that does not stop at a failure
RegisterIdentities_Continue(clearer, identities) ==
    RegisterFrom_Continue(clearer, identities, 1,
                          [err |-> "nil", created |-> <<>>, calls |-> <<>>])

\* pc.RegisterIdentities(identities...): the error returned, the registry
\* calls made and the ledger calls submitted
RegisterIdentities(clearer, identities) ==
    RegisterFrom(clearer, identities, 1,
                 [err |-> "nil", created |-> <<>>, calls |-> <<>>])

(***************************************************************************)
(* Package promises: the signing functions statement by statement          *)
(***************************************************************************)
\* what a call keeps while it runs: where it is, the hash and the counter
\* preimage it has computed, what it returns
NewFrame == [pc |-> "called", hash |-> Nil, pre |-> Nil, out |-> Nil]

\* One statement of the call at frames[g] on the value at inputs[g]; the
\* hash it computes is kept at frames[scratch].  A call is
\* [op, promise, key]: promise is a Promise for HashBytes and SignByPayer,
\* an IssuedPromise for SignByReceiver.
StatementWith(inputs, frames, g, scratch) ==
    LET call == inputs[g]
        frame == frames[g]
        kept == frames[scratch].hash
    IN  IF frame.pc = "called"
        THEN \* promise.HashBytes()
             LET hash == IF call.op = "SignByReceiver"
                         THEN HashBytes(call.promise.Promise)
                         ELSE HashBytes(call.promise)
                 hashed == [frames EXCEPT ![scratch].hash = hash]
             IN  IF call.op = "HashBytes"
                 THEN [hashed EXCEPT ![g].pc = "returned", ![g].out = hashed[scratch].hash]
                 ELSE IF call.op = "SignByPayer"
                 THEN [hashed EXCEPT ![g].pc = "hashed"]
                 ELSE [hashed EXCEPT ![g].pc = "to recover"]
        ELSE IF frame.pc = "to recover"
        THEN \* crypto.Ecrecover, ToECDSAPub, PubkeyToAddress, Keccak256
             IF EcrecoverFails(kept, call.promise.IssuerSignature)
             THEN [frames EXCEPT ![g].pc = "returned",
                                 ![g].out = [ptr |-> FALSE, val |-> NoReceived,
                                             err |-> "InvalidSignature", pre |-> Nil]]
             ELSE LET payerAddr == PubkeyToAddress(
                                       Ecrecover(kept, call.promise.IssuerSignature))
                      pre == CounterPreimage(call.promise, payerAddr)
                  IN  [frames EXCEPT ![g].pc = "hashed", ![g].pre = pre,
                                     ![scratch].hash = Keccak256(pre)]
        ELSE \* crypto.Sign and the return statement
             LET signature == Sign(kept, call.key)
             IN  IF call.op = "SignByPayer"
                 THEN [frames EXCEPT
                          ![g].pc = "returned",
                          ![g].out = IF signature = Nil
                                     THEN [ptr |-> FALSE, val |-> NoIssued,
                                           err |-> "SigningError"]
                                     ELSE [ptr |-> TRUE,
                                           val |-> [Promise |-> call.promise,
                                                    IssuerSignature |-> signature],
                                           err |-> "nil"]]
                 ELSE [frames EXCEPT
                          ![g].pc = "returned",
                          ![g].out = [ptr |-> TRUE,
                                      val |-> [IssuedPromise |-> call.promise,
                                               ReceiverSignature |-> signature],
                                      err |-> "nil", pre |-> frame.pre]]

\* the statements with the hash kept in one package-level buffer
Statement_SharedBuffer(inputs, frames, g) == StatementWith(inputs, frames, g, 1)

\* the statements as written: hash is a local variable of the call
Statement(inputs, frames, g) == StatementWith(inputs, frames, g, g)

(***************************************************************************)
(* Package promises: settlement encoding                                   *)
(***************************************************************************)
\* a decomposition that shifts the recovery id to 27 / 28
DecomposeSignature_ShiftV(signature) ==
    IF Len(signature) # 65
    THEN [ok |-> FALSE, V |-> 0, R |-> Nil, S |-> Nil]
    ELSE [ok |-> TRUE, V |-> signature[65] + 27,
          R |-> SubSeq(signature, 1, 32), S |-> SubSeq(signature, 33, 64)]

\* registry.DecomposeSignature / identity.DecomposeSignature: the three
\* scalars of a 65-byte R || S || V signature, an error on any other length
DecomposeSignature(signature) ==
    IF Len(signature) # 65
    THEN [ok |-> FALSE, V |-> 0, R |-> Nil, S |-> Nil]
    ELSE [ok |-> TRUE, V |-> signature[65],
          R |-> SubSeq(signature, 1, 32), S |-> SubSeq(signature, 33, 64)]

\* the inverse re-encoding: R || S || V
RecomposeSignature(V, R, S) == R \o S \o <<V>>

\* Go's copy(dst[off:], src): as many bytes as fit
Copy(dst, off, src) ==
    [i \in 1..Len(dst) |->
        IF i > off /\ i - off <= Len(src) THEN src[i - off] ELSE dst[i]]

\* promise.ConsumerHash(): the ledger's extra-data hash of a promise
ConsumerHash(promise) == Keccak256(promise.IssuedPromise.Promise.Receiver)

\* packing that puts the counter-signer's V before the issuer's
PackAddressAndSigns_Swapped(issuerV, receiverV, receiver) ==
    Copy(Zeros(32), 10, <<receiverV, issuerV>> \o receiver)

\* var packedAddressAndSigns [32]byte; copy(packed[10:32], {iV, rV} ++ Receiver)
PackAddressAndSigns(issuerV, receiverV, receiver) ==
    Copy(Zeros(32), 10, <<issuerV, receiverV>> \o receiver)

\* the ClearPromise argument list with the two signatures' R and S exchanged
ClearPromiseArgs_Swapped(promise, issuerSig, receiverSig) ==
    << PackAddressAndSigns(issuerSig.V, receiverSig.V,
                           promise.IssuedPromise.Promise.Receiver),
       Copy(Zeros(32), 0, ConsumerHash(promise)),
       promise.IssuedPromise.Promise.SeqNo,
       promise.IssuedPromise.Promise.Amount,
       receiverSig.R, receiverSig.S, issuerSig.R, issuerSig.S >>

\* the arguments of pc.ClearPromise(...), in call order
ClearPromiseArgs(promise, issuerSig, receiverSig) ==
    << PackAddressAndSigns(issuerSig.V, receiverSig.V,
                           promise.IssuedPromise.Promise.Receiver),
       Copy(Zeros(32), 0, ConsumerHash(promise)),
       promise.IssuedPromise.Promise.SeqNo,
       promise.IssuedPromise.Promise.Amount,
       issuerSig.R, issuerSig.S, receiverSig.R, receiverSig.S >>

\* ClearReceivedPromise that goes on after the second decomposition failed
ClearReceivedPromise_SkipReceiverErr(promise, ledgerErr) ==
    LET issuerSig == DecomposeSignature(promise.IssuedPromise.IssuerSignature)
        receiverSig == DecomposeSignature(promise.ReceiverSignature)
    IN  IF ~issuerSig.ok
        THEN [err |-> "MalformedSignature", at |-> "issuerSig", calls |-> <<>>]
        ELSE [err |-> ledgerErr, at |-> "ClearPromise",
              calls |-> <<ClearPromiseArgs(promise, issuerSig, receiverSig)>>]

\* (pc *PromiseClearing) ClearReceivedPromise(promise); ledgerErr is the
\* error the ledger's ClearPromise returns if it is called.  calls lists the
\* ledger calls made, at names the statement whose error is returned.
ClearReceivedPromise(promise, ledgerErr) ==
    LET issuerSig == DecomposeSignature(promise.IssuedPromise.IssuerSignature)
        receiverSig == DecomposeSignature(promise.ReceiverSignature)
    IN  IF ~issuerSig.ok
        THEN [err |-> "MalformedSignature", at |-> "issuerSig", calls |-> <<>>]
        ELSE IF ~receiverSig.ok
        THEN [err |-> "MalformedSignature", at |-> "receiverSig", calls |-> <<>>]
        ELSE [err |-> ledgerErr, at |-> "ClearPromise",
              calls |-> <<ClearPromiseArgs(promise, issuerSig, receiverSig)>>]

\* a < b for two byte strings of one length read as big-endian numbers
RECURSIVE Less(_, _)
Less(a, b) ==
    IF a = <<>> THEN FALSE
    ELSE IF Head(a) # Head(b) THEN Head(a) < Head(b)
    ELSE Less(Tail(a), Tail(b))

\* (*big.Int).Uint64(): the low 64 bits, as 8 big-endian bytes
Uint64(word) == SubSeq(word, 25, 32)

\* the ledger's clearedPromises: a uint256 word per (sender, receiver)
NewLedger(senders, receivers) == [pair \in senders \X receivers |-> Zeros(32)]

\* a ledger that takes any sequence number
LedgerClearPromise_AnySeq(cleared, sender, call) ==
    LET receiver == SubSeq(call[1], 13, 32)
        seqNo == U256(call[3])
    IN  [err |-> "nil", cleared |-> [cleared EXCEPT ![<<sender, receiver>>] = seqNo]]

\* the ledger's ClearPromise for a call whose issuer signature is sender's:
\* it takes the promise unless its sequence number is below the one last
\* cleared from sender to the receiver packed in the first word
LedgerClearPromise(cleared, sender, call) ==
    LET receiver == SubSeq(call[1], 13, 32)
        seqNo == U256(call[3])
    IN  IF Less(seqNo, cleared[<<sender, receiver>>])
        THEN [err |-> "revert", cleared |-> cleared]
        ELSE [err |-> "nil", cleared |-> [cleared EXCEPT ![<<sender, receiver>>] = seqNo]]

\* (pc *PromiseClearing) LastClearedPromise(sender, receiver); callErr is
\* the error of the pc.ClearedPromises call
LastClearedPromise(cleared, sender, receiver, callErr) ==
    IF callErr # "nil" THEN [seq |-> Uint64(Zeros(32)), err |-> callErr]
    ELSE [seq |-> Uint64(cleared[<<sender, receiver>>]), err |-> "nil"]

(***************************************************************************)
(* Package balances: the withdraw request                                  *)
(***************************************************************************)
\* the bytes NewWithdrawRequest hands to Keccak256
WithdrawPreimage(amount) == withDrawPrefix \o U256(amount)

NoSignature == [ok |-> FALSE, V |-> 0, R |-> Nil, S |-> Nil]

\* NewWithdrawRequest(identity, amount)
NewWithdrawRequest(identity, amount) ==
    LET signature == Sign(Keccak256(WithdrawPreimage(amount)), identity)
        decomposed == DecomposeSignature(signature)
    IN  IF signature = Nil
        THEN [ptr |-> FALSE, Amount |-> 0, Signature |-> NoSignature, err |-> "SigningError"]
        ELSE IF ~decomposed.ok
        THEN [ptr |-> FALSE, Amount |-> 0, Signature |-> NoSignature, err |-> "MalformedSignature"]
        ELSE [ptr |-> TRUE, Amount |-> amount, Signature |-> decomposed, err |-> "nil"]

(***************************************************************************)
(* Package bindings: the channel contract (ChannelImplementationBin) and   *)
(* the transactor methods that call it                                     *)
(***************************************************************************)
DELAY_BLOCKS == 18000

exitPrefix == <<69, 120, 105, 116, 32, 114, 101, 113, 117, 101, 115, 116, 58>>

fundsDestinationPrefix ==
    <<83, 101, 116, 32, 102, 117, 110, 100, 115, 32, 100, 101, 115, 116, 105, 110, 97,
      116, 105, 111, 110, 58>>

ZeroAddress == Zeros(20)

\* the channel's own address and its operator
ChannelAddress == Addr(204)
OperatorKey == 1
Operator == AddressOf(OperatorKey)

\* contract storage: fundsDestination (slot 1), exitRequest (slots 3, 4),
\* operator (slot 8), lastNonce (slot 10); balance is the channel's balance
\* in the token contract (slot 2)
NewChannel(funds) ==
    [operator |-> Operator, fundsDestination |-> ZeroAddress, lastNonce |-> 0,
     exitTimelock |-> 0, exitBeneficiary |-> ZeroAddress, balance |-> funds]

NoPayment == [to |-> ZeroAddress, amount |-> 0]

Revert(st, reason) == [err |-> reason, st |-> st, paid |-> NoPayment]

Done(st) == [err |-> "nil", st |-> st, paid |-> NoPayment]

\* a signature as a client hands it to the contract: crypto.Sign with the
\* recovery id moved to 27 / 28
EthSign(hash, prv) ==
    LET sig == Sign(hash, prv)
    IN  IF sig = Nil THEN Nil ELSE [sig EXCEPT ![65] = @ + 27]

\* ECDSA.recover of the contract: reverts on a wrong length, on v outside
\* {27, 28} and on a signature ecrecover rejects
ECDSARecover(hash, sig) ==
    IF Len(sig) # 65 THEN [err |-> "ECDSA: invalid signature length", signer |-> ZeroAddress]
    ELSE IF sig[65] \notin {27, 28}
    THEN [err |-> "ECDSA: invalid signature 'v' value", signer |-> ZeroAddress]
    ELSE LET raw == [sig EXCEPT ![65] = @ - 27]
         IN  IF EcrecoverFails(hash, raw)
             THEN [err |-> "ECDSA: invalid signature", signer |-> ZeroAddress]
             ELSE [err |-> "nil", signer |-> PubkeyToAddress(Ecrecover(hash, raw))]

\* getTimelock(): block.number + DELAY_BLOCKS
GetTimelock(number) == number + DELAY_BLOCKS

ChequePreimage(newDestination, nonce) ==
    fundsDestinationPrefix \o newDestination \o U256(nonce)

ExitPreimage(beneficiary, validUntil) ==
    exitPrefix \o ChannelAddress \o beneficiary \o U256(validUntil)

\* the cheque check that also lets the last nonce through again
setFundsDestinationByCheque_Reuse(st, sender, number, newDestination, nonce, signature) ==
    LET rec == ECDSARecover(Keccak256(ChequePreimage(newDestination, nonce)), signature)
    IN  IF newDestination = ZeroAddress THEN Revert(st, "revert")
        ELSE IF ~(nonce >= st.lastNonce)
        THEN Revert(st, "nonce have to be bigger than last one")
        ELSE IF rec.err # "nil" THEN Revert(st, rec.err)
        ELSE IF rec.signer # st.operator
        THEN Revert(st, "have to be signed by proper identity")
        ELSE Done([st EXCEPT !.fundsDestination = newDestination, !.lastNonce = nonce])

\* function setFundsDestinationByCheque(address _newDestination,
\*                                      uint256 _nonce, bytes _signature)
setFundsDestinationByCheque(st, sender, number, newDestination, nonce, signature) ==
    LET rec == ECDSARecover(Keccak256(ChequePreimage(newDestination, nonce)), signature)
    IN  IF newDestination = ZeroAddress THEN Revert(st, "revert")
        ELSE IF ~(nonce > st.lastNonce)
        THEN Revert(st, "nonce have to be bigger than last one")
        ELSE IF rec.err # "nil" THEN Revert(st, rec.err)
        ELSE IF rec.signer # st.operator
        THEN Revert(st, "have to be signed by proper identity")
        ELSE Done([st EXCEPT !.fundsDestination = newDestination, !.lastNonce = nonce])

\* requestExit that takes a new request over a pending one
requestExit_Overwrite(st, sender, number, beneficiary, validUntil, signature) ==
    LET timelock == GetTimelock(number)
        rec == ECDSARecover(Keccak256(ExitPreimage(beneficiary, validUntil)), signature)
    IN  IF ~(validUntil > number)
        THEN Revert(st, "valid until have to be greater than current block number")
        ELSE IF ~(timelock > validUntil)
        THEN Revert(st, "request have to be valid shorter than DELAY_BLOCKS")
        ELSE IF beneficiary = ZeroAddress
        THEN Revert(st, "beneficiary can't be zero address")
        ELSE IF sender # st.operator /\ rec.err # "nil" THEN Revert(st, rec.err)
        ELSE IF sender # st.operator /\ rec.signer # st.operator
        THEN Revert(st, "have to be signed by operator")
        ELSE Done([st EXCEPT !.exitTimelock = timelock, !.exitBeneficiary = beneficiary])

\* requestExit that takes the signature of any key
requestExit_AnySigner(st, sender, number, beneficiary, validUntil, signature) ==
    LET timelock == GetTimelock(number)
        rec == ECDSARecover(Keccak256(ExitPreimage(beneficiary, validUntil)), signature)
    IN  IF st.exitTimelock # 0
        THEN Revert(st, "new exit can be requested only when old one was finalised")
        ELSE IF ~(validUntil > number)
        THEN Revert(st, "valid until have to be greater than current block number")
        ELSE IF ~(timelock > validUntil)
        THEN Revert(st, "request have to be valid shorter than DELAY_BLOCKS")
        ELSE IF beneficiary = ZeroAddress
        THEN Revert(st, "beneficiary can't be zero address")
        ELSE IF sender # st.operator /\ rec.err # "nil" THEN Revert(st, rec.err)
        ELSE Done([st EXCEPT !.exitTimelock = timelock, !.exitBeneficiary = beneficiary])

\* function requestExit(address _beneficiary, uint256 _validUntil,
\*                      bytes _signature)
requestExit(st, sender, number, beneficiary, validUntil, signature) ==
    LET timelock == GetTimelock(number)
        rec == ECDSARecover(Keccak256(ExitPreimage(beneficiary, validUntil)), signature)
    IN  IF st.exitTimelock # 0
        THEN Revert(st, "new exit can be requested only when old one was finalised")
        ELSE IF ~(validUntil > number)
        THEN Revert(st, "valid until have to be greater than current block number")
        ELSE IF ~(timelock > validUntil)
        THEN Revert(st, "request have to be valid shorter than DELAY_BLOCKS")
        ELSE IF beneficiary = ZeroAddress
        THEN Revert(st, "beneficiary can't be zero address")
        ELSE IF sender # st.operator /\ rec.err # "nil" THEN Revert(st, rec.err)
        ELSE IF sender # st.operator /\ rec.signer # st.operator
        THEN Revert(st, "have to be signed by operator")
        ELSE Done([st EXCEPT !.exitTimelock = timelock, !.exitBeneficiary = beneficiary])

\* finalizeExit that wants the timelock strictly in the past
finalizeExit_Late(st, sender, number) ==
    IF ~(st.exitTimelock # 0 /\ number > st.exitTimelock)
    THEN Revert(st, "exit have to be requested and timelock have to be in past")
    ELSE [err |-> "nil",
          st |-> [st EXCEPT !.balance = 0, !.exitTimelock = 0,
                            !.exitBeneficiary = ZeroAddress],
          paid |-> [to |-> st.exitBeneficiary, amount |-> st.balance]]

\* function finalizeExit(): pays the channel's whole token balance to the
\* beneficiary of the exit request and deletes the request
finalizeExit(st, sender, number) ==
    IF ~(st.exitTimelock # 0 /\ number >= st.exitTimelock)
    THEN Revert(st, "exit have to be requested and timelock have to be in past")
    ELSE [err |-> "nil",
          st |-> [st EXCEPT !.balance = 0, !.exitTimelock = 0,
                            !.exitBeneficiary = ZeroAddress],
          paid |-> [to |-> st.exitBeneficiary, amount |-> st.balance]]

\* (*ChannelImplementationTransactor).SetFundsDestinationByCheque(opts, ...):
\* contract.Transact(opts, "setFundsDestinationByCheque", ...), sent from opts.From
SetFundsDestinationByCheque(st, opts, number, newDestination, nonce, signature) ==
    setFundsDestinationByCheque(st, opts.From, number, newDestination, nonce, signature)

\* (*ChannelImplementationTransactor).RequestExit(opts, ...)
RequestExit(st, opts, number, beneficiary, validUntil, signature) ==
    requestExit(st, opts.From, number, beneficiary, validUntil, signature)

\* (*ChannelImplementationTransactor).FinalizeExit(opts)
FinalizeExit(st, opts, number) == finalizeExit(st, opts.From, number)

(***************************************************************************)
(* Package bindings: the event iterators                                   *)
(***************************************************************************)
\* the iterators of the three events have the same code but for the name
EventNames == {"PromiseSettled", "ExitRequested", "DestinationChanged"}

NoEvent == [id |-> 0, unpacks |-> TRUE]

\* the iterator FilterPromiseSettled (FilterExitRequested, ...) returns
NewIterator(event) == [event |-> event, Event |-> NoEvent, done |-> FALSE, fail |-> "nil"]

\* it.contract.UnpackLog(it.Event, it.event, log)
UnpackLog(log) == IF log.unpacks THEN "nil" ELSE "unpack failed"

\* case log := <-it.logs: in either select of Next
TakeLog(it, logs, sub) ==
    LET log == Head(logs)
    IN  IF UnpackLog(log) # "nil"
        THEN [ret |-> FALSE, it |-> [it EXCEPT !.Event = NoEvent, !.fail = UnpackLog(log)],
              logs |-> Tail(logs), sub |-> sub, read |-> <<"log">>]
        ELSE [ret |-> TRUE, it |-> [it EXCEPT !.Event = log],
              logs |-> Tail(logs), sub |-> sub, read |-> <<"log">>]

\* Next once it.done is set, handing out the log that came in last
NextDone_Newest(it, logs, sub) ==
    IF logs # <<>>
    THEN TakeLog(it, <<logs[Len(logs)]>> \o SubSeq(logs, 1, Len(logs) - 1), sub)
    ELSE [ret |-> FALSE, it |-> it, logs |-> logs, sub |-> sub, read |-> <<>>]

\* Next once it.done is set: whatever is there, without waiting
NextDone(it, logs, sub) ==
    IF logs # <<>> THEN TakeLog(it, logs, sub)
    ELSE [ret |-> FALSE, it |-> it, logs |-> logs, sub |-> sub, read |-> <<>>]

\* the value read from sub.Err(): the error sent, or nil once it is closed
ErrRead(sub) == IF sub = "closed" THEN "nil" ELSE sub

\* whether Next has to wait: the second select with neither case ready
Blocks(it, logs, sub) ==
    it.fail = "nil" /\ ~it.done /\ logs = <<>> /\ sub = "open"

RECURSIVE Next(_, _, _, _)

\* Next that does not keep the error the subscription ended with
Next_ForgetError(it, logs, sub, pick) ==
    IF it.fail # "nil"
    THEN [ret |-> FALSE, it |-> it, logs |-> logs, sub |-> sub, read |-> <<>>]
    ELSE IF it.done THEN NextDone(it, logs, sub)
    ELSE IF pick = "log" THEN TakeLog(it, logs, sub)
    ELSE LET failed == [it EXCEPT !.done = TRUE]
             rest == IF sub = "closed" THEN sub ELSE "open"
             again == NextDone(failed, logs, rest)
         IN  [again EXCEPT !.read = <<"err">> \o @]

\* (it *ChannelImplementationPromiseSettledIterator) Next() bool; pick is
\* the case the waiting select takes.  read lists the channels read from.
Next(it, logs, sub, pick) ==
    IF it.fail # "nil"
    THEN [ret |-> FALSE, it |-> it, logs |-> logs, sub |-> sub, read |-> <<>>]
    ELSE IF it.done THEN NextDone(it, logs, sub)
    ELSE IF pick = "log" THEN TakeLog(it, logs, sub)
    ELSE LET failed == [it EXCEPT !.done = TRUE, !.fail = ErrRead(sub)]
             rest == IF sub = "closed" THEN sub ELSE "open"
             again == Next(failed, logs, rest, pick)
         IN  [again EXCEPT !.read = <<"err">> \o @]

\* (it *ChannelImplementationPromiseSettledIterator) Error() error
Error(it) == it.fail

(***************************************************************************)
(* Package bindings: the Watch loops                                       *)
(***************************************************************************)
\* the function WatchPromiseSettled (WatchExitRequested, ...) hands to
\* event.NewSubscription, about to enter its loop
NewWatch(event) ==
    [event |-> event, pc |-> "select", pending |-> NoEvent, ret |-> "none",
     exit |-> "none", unsubscribed |-> FALSE]

\* a return that leaves the log subscription as it is
WatchReturn_NoUnsubscribe(w, case, err) ==
    [w EXCEPT !.pc = "returned", !.pending = NoEvent, !.ret = err, !.exit = case]

\* return err from the case taken, with the deferred sub.Unsubscribe()
WatchReturn(w, case, err) ==
    [w EXCEPT !.pc = "returned", !.pending = NoEvent, !.ret = err, !.exit = case,
              !.unsubscribed = TRUE]

\* the cases of the select the loop is at that can be taken
Ready(w, logs, sub, closed, room) ==
    {case \in {"log", "sink", "err", "quit"} :
        \/ case = "log" /\ w.pc = "select" /\ logs # <<>>
        \/ case = "sink" /\ w.pc = "sending" /\ room
        \/ case = "err" /\ w.pc \in {"select", "sending"} /\ sub # "open"
        \/ case = "quit" /\ w.pc \in {"select", "sending"} /\ closed}

\* the loop that hands the event it holds to the sink before it returns
WatchStep_Flush(w, logs, sub, taken, case) ==
    IF case = "log"
    THEN IF UnpackLog(Head(logs)) # "nil"
         THEN [w |-> WatchReturn(w, case, UnpackLog(Head(logs))), logs |-> Tail(logs),
               sub |-> sub, sunk |-> taken]
         ELSE [w |-> [w EXCEPT !.pc = "sending", !.pending = Head(logs)],
               logs |-> Tail(logs), sub |-> sub, sunk |-> taken]
    ELSE IF case = "sink"
    THEN [w |-> [w EXCEPT !.pc = "select", !.pending = NoEvent], logs |-> logs,
          sub |-> sub, sunk |-> Append(taken, w.pending)]
    ELSE [w |-> WatchReturn(w, case, IF case = "err" THEN ErrRead(sub) ELSE "nil"),
          logs |-> logs,
          sub |-> IF case = "err" /\ sub # "closed" THEN "open" ELSE sub,
          sunk |-> IF w.pc = "sending" THEN Append(taken, w.pending) ELSE taken]

\* the loop takes one ready case of the select it is at: a log (unpacked,
\* then held for the sink), the send to the sink, an error of the log
\* subscription, or quit
WatchStep(w, logs, sub, taken, case) ==
    IF case = "log"
    THEN IF UnpackLog(Head(logs)) # "nil"
         THEN [w |-> WatchReturn(w, case, UnpackLog(Head(logs))), logs |-> Tail(logs),
               sub |-> sub, sunk |-> taken]
         ELSE [w |-> [w EXCEPT !.pc = "sending", !.pending = Head(logs)],
               logs |-> Tail(logs), sub |-> sub, sunk |-> taken]
    ELSE IF case = "sink"
    THEN [w |-> [w EXCEPT !.pc = "select", !.pending = NoEvent], logs |-> logs,
          sub |-> sub, sunk |-> Append(taken, w.pending)]
    ELSE IF case = "err"
    THEN [w |-> WatchReturn(w, case, ErrRead(sub)), logs |-> logs,
          sub |-> IF sub = "closed" THEN sub ELSE "open", sunk |-> taken]
    ELSE [w |-> WatchReturn(w, case, "nil"), logs |-> logs, sub |-> sub,
          sunk |-> taken]

(***************************************************************************)
(* Package client: WithDryRuns                                             *)
(***************************************************************************)
\* errors are chains of messages, outermost first; the nil error is empty
NilErr == <<>>

\* errors.Wrap(err, message): nil when err is nil
Wrap(err, message) == IF err = NilErr THEN NilErr ELSE <<message>> \o err

\* a write request: its gas limit and what tells it from other requests
Requests == [gasLimit : {0, 50000}, id : {1, 2}]

\* how the surroundings answer during one call: the error of
\* req.toEstimator, the result of estimator.Estimate, the result of the
\* underlying client's write method
Envs ==
    [estimatorErr : {NilErr, <<"no eth client">>},
     estimate : {[gas |-> 48000, err |-> NilErr], [gas |-> 0, err |-> <<"revert">>]},
     bcRes : {[tx |-> "tx", err |-> NilErr], [tx |-> "nil", err |-> <<"send failed">>]}]

Event(op, method, req) == [op |-> op, method |-> method, req |-> req]

\* cwdr.bc.<method>(req): the underlying client.  With no gas limit set the
\* ethereum client estimates (dry-runs) the transaction itself before it
\* sends it; with a gas limit it sends it as it is.
Bc(method, req, env) ==
    [tx |-> env.bcRes.tx, err |-> env.bcRes.err,
     trace |-> <<Event("bc", method, req)>>
               \o (IF req.gasLimit = 0 THEN <<Event("eth.EstimateGas", method, req)>>
                                        ELSE <<>>)
               \o <<Event("eth.SendTransaction", method, req)>>]

\* the methods of WithDryRuns that send no transaction
ReadMethods ==
    {"GetEthBalance", "GetHermessAvailableBalance", "GetHermesFee", "GetHermesURL",
     "CalculateHermesFee", "IsRegisteredAsProvider", "GetProviderChannel",
     "IsRegistered", "SubscribeToPromiseSettledEvent", "GetMystBalance",
     "SubscribeToConsumerBalanceEvent", "IsHermesRegistered", "GetHermesOperator",
     "GetConsumerChannelsHermes", "SubscribeToMystTokenTransfers",
     "GetConsumerChannelOperator", "GetConsumerChannel", "GetProviderChannelByID",
     "SubscribeToIdentityRegistrationEvents",
     "SubscribeToConsumerChannelBalanceUpdate",
     "SubscribeToPromiseSettledEventByChannelID", "NetworkID", "GetStakeThresholds",
     "GetBeneficiary", "SuggestGasPrice", "TransactionReceipt"}

\* the arguments of a read: the addresses (or none) it is asked about
ReadArgs == {<<>>, <<Addr(170), Addr(187)>>}

\* a read that dry-runs before it asks the underlying client
Read_Estimating(method, arguments, env) ==
    [tx |-> env.bcRes.tx, err |-> env.bcRes.err,
     trace |-> <<Event("toEstimator", method, arguments),
                 Event("estimator.Estimate", method, arguments),
                 Event("bc", method, arguments)>>]

\* (cwdr *WithDryRuns) <method>(arguments) for the methods in ReadMethods:
\* return cwdr.bc.<method>(arguments)
Read(method, arguments, env) ==
    [tx |-> env.bcRes.tx, err |-> env.bcRes.err,
     trace |-> <<Event("bc", method, arguments)>>]

\* Estimate that asks the estimator whatever the gas limit
Estimate_Always(req, env) ==
    IF env.estimatorErr # NilErr
    THEN [gas |-> 0, err |-> env.estimatorErr,
          trace |-> <<Event("toEstimator", "Estimate", req)>>]
    ELSE [gas |-> env.estimate.gas,
          err |-> Wrap(env.estimate.err, "could not estimate gas"),
          trace |-> <<Event("toEstimator", "Estimate", req),
                      Event("estimator.Estimate", "Estimate", req)>>]

\* (cwdr *WithDryRuns) Estimate(req Estimatable) (uint64, error)
Estimate(req, env) ==
    IF req.gasLimit = 0 THEN [gas |-> 0, err |-> NilErr, trace |-> <<>>]
    ELSE IF env.estimatorErr # NilErr
    THEN [gas |-> 0, err |-> env.estimatorErr,
          trace |-> <<Event("toEstimator", "Estimate", req)>>]
    ELSE [gas |-> env.estimate.gas,
          err |-> Wrap(env.estimate.err, "could not estimate gas"),
          trace |-> <<Event("toEstimator", "Estimate", req),
                      Event("estimator.Estimate", "Estimate", req)>>]

\* the text ganache puts in the message of a reverted call
RevertText == "VM Exception while processing transaction: revert"

\* the errors a chain can end in: whether the value is an rpc.Error, its
\* ErrorCode() and its Error() text, cut into pieces
RootErrors ==
    {[name |-> "rpc revert with reason", rpc |-> TRUE, code |-> -32000,
      message |-> <<RevertText, " ", "not allowed">>],
     [name |-> "rpc bare revert", rpc |-> TRUE, code |-> -32000,
      message |-> <<RevertText>>],
     [name |-> "rpc revert inside text", rpc |-> TRUE, code |-> -32000,
      message |-> <<"Error:", " ", RevertText, " ", "not allowed">>],
     [name |-> "rpc out of gas", rpc |-> TRUE, code |-> -32000,
      message |-> <<"out of gas">>],
     [name |-> "rpc internal revert", rpc |-> TRUE, code |-> -32603,
      message |-> <<RevertText, " ", "not allowed">>],
     [name |-> "plain revert", rpc |-> FALSE, code |-> 0,
      message |-> <<RevertText, " ", "not allowed">>]}

\* errors.Cause(err): the innermost error of the chain
Cause(err) == err[Len(err)]

\* the type assertion .(rpc.Error)
IsRpcError(name) == \E e \in RootErrors : e.name = name /\ e.rpc

RpcError(name) == CHOOSE e \in RootErrors : e.name = name

\* strings.Contains(text, piece) for a piece that is one of the text's pieces
Contains(text, piece) == \E i \in 1..Len(text) : text[i] = piece

\* strings.TrimPrefix(text, prefix)
TrimPrefix(text, prefix) ==
    IF Len(text) >= Len(prefix) /\ SubSeq(text, 1, Len(prefix)) = prefix
    THEN SubSeq(text, Len(prefix) + 1, Len(text))
    ELSE text

\* no ErrorTransactionReverted
NoReverted == [is |-> FALSE, Err |-> "none", Reason |-> <<>>]

\* DryRun that takes any rpc error with the revert text for a revert
DryRun_AnyCode(req, env) ==
    LET est == Estimate(req, env)
        root == IF est.err = NilErr THEN "none" ELSE Cause(est.err)
    IN  IF est.err = NilErr
        THEN [err |-> NilErr, reverted |-> NoReverted, trace |-> est.trace]
        ELSE IF /\ IsRpcError(root)
                /\ Contains(RpcError(root).message, RevertText)
        THEN [err |-> NilErr,
              reverted |-> [is |-> TRUE, Err |-> root,
                            Reason |-> TrimPrefix(RpcError(root).message,
                                                  <<RevertText, " ">>)],
              trace |-> est.trace]
        ELSE [err |-> est.err, reverted |-> NoReverted, trace |-> est.trace]

\* (cwdr *WithDryRuns) DryRun(req Estimatable) error: err is the error
\* returned when it is a plain one, reverted the ErrorTransactionReverted
\* returned when it is one
DryRun(req, env) ==
    LET est == Estimate(req, env)
        root == IF est.err = NilErr THEN "none" ELSE Cause(est.err)
    IN  IF est.err = NilErr
        THEN [err |-> NilErr, reverted |-> NoReverted, trace |-> est.trace]
        ELSE IF /\ IsRpcError(root)
                /\ RpcError(root).code = -32000
                /\ Contains(RpcError(root).message, RevertText)
        THEN [err |-> NilErr,
              reverted |-> [is |-> TRUE, Err |-> root,
                            Reason |-> TrimPrefix(RpcError(root).message,
                                                  <<RevertText, " ">>)],
              trace |-> est.trace]
        ELSE [err |-> est.err, reverted |-> NoReverted, trace |-> est.trace]

\* how the surroundings answer a dry run: as Envs, with the estimator
\* failing in each of the ways RootErrors lists
DryRunEnvs ==
    [estimatorErr : {NilErr, <<"no eth client">>},
     estimate : {[gas |-> 48000, err |-> NilErr]}
                \cup {[gas |-> 0, err |-> <<e.name>>] : e \in RootErrors},
     bcRes : {[tx |-> "tx", err |-> NilErr]}]

\* (cwdr *WithDryRuns) TransferEth(etr EthTransferRequest)
TransferEth(etr, env) ==
    LET sent == Bc("TransferEth", etr, env)
    IN  [tx |-> sent.tx, err |-> sent.err, trace |-> sent.trace]

\* SettlePromise that sends the request whatever the estimate said
SettlePromise_NoCheck(req, env) ==
    LET est == Estimate(req, env)
        sent == Bc("SettlePromise", req, env)
    IN  [tx |-> sent.tx, err |-> sent.err, trace |-> est.trace \o sent.trace]

\* (cwdr *WithDryRuns) TransferMyst(req TransferRequest)
TransferMyst(req, env) ==
    LET est == Estimate(req, env)
        sent == Bc("TransferMyst", req, env)
    IN  IF est.err # NilErr
        THEN [tx |-> "nil", err |-> est.err, trace |-> est.trace]
        ELSE [tx |-> sent.tx, err |-> sent.err, trace |-> est.trace \o sent.trace]

\* (cwdr *WithDryRuns) SettlePromise(req SettleRequest)
SettlePromise(req, env) ==
    LET est == Estimate(req, env)
        sent == Bc("SettlePromise", req, env)
    IN  IF est.err # NilErr
        THEN [tx |-> "nil", err |-> est.err, trace |-> est.trace]
        ELSE [tx |-> sent.tx, err |-> sent.err, trace |-> est.trace \o sent.trace]

\* (cwdr *WithDryRuns) RegisterIdentity(req RegistrationRequest)
RegisterIdentity(req, env) ==
    LET est == Estimate(req, env)
        sent == Bc("RegisterIdentity", req, env)
    IN  IF est.err # NilErr
        THEN [tx |-> "nil", err |-> est.err, trace |-> est.trace]
        ELSE [tx |-> sent.tx, err |-> sent.err, trace |-> est.trace \o sent.trace]

\* (cwdr *WithDryRuns) SettleAndRebalance(req SettleAndRebalanceRequest)
SettleAndRebalance(req, env) ==
    LET est == Estimate(req, env)
        sent == Bc("SettleAndRebalance", req, env)
    IN  IF est.err # NilErr
        THEN [tx |-> "nil", err |-> est.err, trace |-> est.trace]
        ELSE [tx |-> sent.tx, err |-> sent.err, trace |-> est.trace \o sent.trace]

\* (cwdr *WithDryRuns) SettleWithBeneficiary(req SettleWithBeneficiaryRequest)
SettleWithBeneficiary(req, env) ==
    LET est == Estimate(req, env)
        sent == Bc("SettleWithBeneficiary", req, env)
    IN  IF est.err # NilErr
        THEN [tx |-> "nil", err |-> est.err, trace |-> est.trace]
        ELSE [tx |-> sent.tx, err |-> sent.err, trace |-> est.trace \o sent.trace]

\* (cwdr *WithDryRuns) DecreaseProviderStake(req DecreaseProviderStakeRequest)
DecreaseProviderStake(req, env) ==
    LET est == Estimate(req, env)
        sent == Bc("DecreaseProviderStake", req, env)
    IN  IF est.err # NilErr
        THEN [tx |-> "nil", err |-> est.err, trace |-> est.trace]
        ELSE [tx |-> sent.tx, err |-> sent.err, trace |-> est.trace \o sent.trace]

\* (cwdr *WithDryRuns) SettleIntoStake(req SettleIntoStakeRequest)
SettleIntoStake(req, env) ==
    LET est == Estimate(req, env)
        sent == Bc("SettleIntoStake", req, env)
    IN  IF est.err # NilErr
        THEN [tx |-> "nil", err |-> est.err, trace |-> est.trace]
        ELSE [tx |-> sent.tx, err |-> sent.err, trace |-> est.trace \o sent.trace]

\* (cwdr *WithDryRuns) IncreaseProviderStake(req ProviderStakeIncreaseRequest)
IncreaseProviderStake(req, env) ==
    LET est == Estimate(req, env)
        sent == Bc("IncreaseProviderStake", req, env)
    IN  IF est.err # NilErr
        THEN [tx |-> "nil", err |-> est.err, trace |-> est.trace]
        ELSE [tx |-> sent.tx, err |-> sent.err, trace |-> est.trace \o sent.trace]

(***************************************************************************)
(* Package client: ReconnectableEthClient                                  *)
(***************************************************************************)
\* Dialled clients are numbered 1, 2, ... in the order they were dialled;
\* world[i] counts the Close() calls client i has had.  0 is the nil client.
NilClient == 0

\* ethclient.Dial(address): a new client, or an error and no client
Dial(world, reachable) ==
    IF reachable
    THEN [client |-> Len(world) + 1, world |-> Append(world, 0), err |-> NilErr]
    ELSE [client |-> NilClient, world |-> world, err |-> <<"dial failed">>]

\* (*ethclient.Client).Close()
Close(world, client) == [world EXCEPT ![client] = @ + 1]

\* NewReconnectableEthClient(address), the dial having succeeded
NewReconnectableEthClient(address) ==
    LET dialled == Dial(<<>>, TRUE)
    IN  [c |-> [address |-> address, client |-> dialled.client],
         world |-> dialled.world]

\* Reconnect that closes the current client before it dials
Reconnect_CloseFirst(c, world, reachable) ==
    LET dialled == Dial(Close(world, c.client), reachable)
    IN  IF dialled.err # NilErr
        THEN [c |-> c, world |-> dialled.world,
              err |-> <<"ethereum client failed to dial">> \o dialled.err]
        ELSE [c |-> [c EXCEPT !.client = dialled.client],
              world |-> dialled.world, err |-> NilErr]

\* Reconnect that leaves the replaced client open
Reconnect_Leak(c, world, reachable) ==
    LET dialled == Dial(world, reachable)
    IN  IF dialled.err # NilErr
        THEN [c |-> c, world |-> dialled.world,
              err |-> <<"ethereum client failed to dial">> \o dialled.err]
        ELSE [c |-> [c EXCEPT !.client = dialled.client],
              world |-> dialled.world, err |-> NilErr]

\* (c *ReconnectableEthClient) Reconnect() error, between Lock and Unlock
Reconnect(c, world, reachable) ==
    LET dialled == Dial(world, reachable)
    IN  IF dialled.err # NilErr
        THEN [c |-> c, world |-> dialled.world,
              err |-> <<"ethereum client failed to dial">> \o dialled.err]
        ELSE [c |-> [c EXCEPT !.client = dialled.client],
              world |-> Close(dialled.world, c.client), err |-> NilErr]

\* (c *ReconnectableEthClient) Client(), between Lock and Unlock
Client(c) == c.client

(***************************************************************************)
(* State                                                                   *)
(***************************************************************************)
VARIABLES
    issuedRes,      \* result of the last SignByPayer call: [ptr, val, err]
    issuedBy,       \* the key that call was given
    forged,         \* how the caller altered the IssuedPromise afterwards
    receivedRes,    \* result of the last SignByReceiver call
    receivedOf,     \* its inputs: the IssuedPromise, the receiver key, and
                    \* whether Ecrecover / Sign returned an error inside it
    args,           \* inputs of the side-by-side runs: one promise, two payer
                    \* keys, a receiver key, a withdraw amount
    laneA,          \* the chain run with the first payer key
    laneB,          \* the chain run with the second payer key
    withdrawRes,    \* result of NewWithdrawRequest and the bytes it hashed
    clearArg,       \* the ReceivedPromise of the last ClearReceivedPromise
                    \* call, with the keys it was made with
    clearOut,       \* what that call returned and the ledger calls it made
    clearCount,     \* ledger ClearPromise calls made so far
    lastSettled,    \* channel and amount of the last promise the ledger accepted
    chan,           \* storage of the channel contract
    blockNumber,    \* block.number
    mines,          \* times the chain has advanced
    lastTx,         \* the last transaction: method, arguments, the storage
                    \* and block it ran on, its error
    exitAccepted,   \* beneficiary and timelock of the last accepted requestExit
    encArgs,        \* two promises and a key handed to HashBytes / SignByPayer
    encOut,         \* the bytes hashed for each, the hash and the IssuedPromise
    codecArg,       \* a signature, or a (v, r, s) triple, handed to the codec
    codecOut,       \* what the codec made of it
    dryCall,        \* the last WithDryRuns call: method, request, how the
                    \* estimator and the blockchain client answer
    dryOut,         \* what it returned and the calls it made, in order
    conn,           \* the ReconnectableEthClient: address, client
    world,          \* for each client dialled so far, how often it was closed
    mu,             \* the goroutine holding conn's mutex, 0 when it is free
    goroutines,     \* per goroutine: the call it is in, where it is in it,
                    \* and what the call saw and returned
    reconnects,     \* Reconnect calls made so far
    cleared,        \* the ledger: the sequence number last cleared for each
                    \* (sender, receiver)
    lastCleared,    \* the last LastClearedPromise call and its result
    iter,           \* an event iterator: event, Event, done, fail
    logs,           \* the logs waiting in it.logs
    subErr,         \* it.sub.Err(): "open" and empty, an error waiting in
                    \* it, or "closed"
    lastNext,       \* the last Next call: what it returned and read, what
                    \* was there before it, and the first failure so far
    delivered,      \* logs delivered so far
    given,          \* the call each goroutine was asked to make
    inputs,         \* the values those calls were handed, as they are now
    frames,         \* each running call: its position, locals and result
    regArgs,        \* the receiver type and identities of a RegisterIdentities call
    regOut,         \* what the call returned, created and submitted
    watch,          \* a Watch loop: event, where it is, the event it holds,
                    \* what it returned and whether it unsubscribed
    wlogs,          \* the logs waiting in the loop's log channel
    wsub,           \* sub.Err() of the log subscription, as subErr
    quit,           \* whether quit has been closed
    sinkRoom,       \* whether a send on sink can go through
    sunk,           \* the events the sink has taken, in order
    wsent           \* logs the log subscription has delivered so far

signVars == <<issuedRes, issuedBy, forged, receivedRes, receivedOf>>

pairVars == <<args, laneA, laneB, withdrawRes>>

clearVars == <<clearArg, clearOut, clearCount, lastSettled>>

chanVars == <<chan, blockNumber, mines, lastTx, exitAccepted>>

encVars == <<encArgs, encOut>>

codecVars == <<codecArg, codecOut>>

dryVars == <<dryCall, dryOut>>
connVars == <<conn, world, mu, goroutines, reconnects>>
ledgerVars == <<cleared, lastCleared>>
iterVars == <<iter, logs, subErr, lastNext, delivered>>
parVars == <<given, inputs, frames>>

regVars == <<regArgs, regOut>>

watchVars == <<watch, wlogs, wsub, quit, sinkRoom, sunk, wsent>>

vars == <<signVars, pairVars, clearVars, chanVars, encVars, codecVars, dryVars, connVars, ledgerVars, iterVars, parVars, regVars, watchVars>>

NoCall == [ptr |-> FALSE, val |-> NoIssued, err |-> "none"]

NoReceiverCall ==
    [ptr |-> FALSE, val |-> NoReceived, err |-> "none", pre |-> Nil]

NoReceiverInput ==
    [promise |-> NoIssued, receiver |-> 0, payer |-> 0, forged |-> "none",
     recoverFailed |-> FALSE, signFailed |-> FALSE]

NoArgs == [promise |-> NoPromise, payerA |-> 0, payerB |-> 0, receiver |-> 0, amount |-> 0]

NoLane == [stage |-> "Unsigned", issued |-> NoCall, issuedPre |-> Nil,
           received |-> NoReceiverCall]

NoWithdraw ==
    [called |-> FALSE, pre |-> Nil,
     res |-> [ptr |-> FALSE, Amount |-> 0, Signature |-> NoSignature, err |-> "none"]]

SignIdle ==
    /\ issuedRes = NoCall
    /\ issuedBy = 0
    /\ forged = "none"
    /\ receivedRes = NoReceiverCall
    /\ receivedOf = NoReceiverInput

PairIdle ==
    /\ args = NoArgs
    /\ laneA = NoLane
    /\ laneB = NoLane
    /\ withdrawRes = NoWithdraw

NoClearArg == [promise |-> NoReceived, payer |-> 0, receiver |-> 0]

NoClearOut == [called |-> FALSE, err |-> "none", at |-> "none", calls |-> <<>>,
               ledgerErr |-> "none", belowSettled |-> FALSE]

NoSettled == [payer |-> 0, receiver |-> Zeros(20), amount |-> 0]

ClearIdle ==
    /\ clearArg = NoClearArg
    /\ clearOut = NoClearOut
    /\ clearCount = 0
    /\ lastSettled = NoSettled

NoTx == [method |-> "none", from |-> ZeroAddress, to |-> ZeroAddress, n |-> 0,
         signed |-> "none", err |-> "none", before |-> NewChannel(0), number |-> 0,
         paid |-> NoPayment]

\* pending: the request has not been finalised; wasPending: it had not been
\* when the last finalizeExit was sent; outstanding: how many accepted
\* requests have not been finalised
NoExit == [beneficiary |-> ZeroAddress, timelock |-> 0, pending |-> FALSE,
           wasPending |-> FALSE, outstanding |-> 0]

ChanIdle ==
    /\ chan = NewChannel(0)
    /\ blockNumber = 0
    /\ mines = 0
    /\ lastTx = NoTx
    /\ exitAccepted = NoExit

NoEncArgs == [p |-> NoPromise, q |-> NoPromise, payer |-> 0]

NoEncOut == [hashed |-> FALSE, preP |-> Nil, preQ |-> Nil, hashP |-> Nil,
             signed |-> NoCall]

EncIdle == encArgs = NoEncArgs /\ encOut = NoEncOut

NoCodecArg == [signature |-> Nil, V |-> 0, R |-> Nil, S |-> Nil]

NoDecomposed == [ok |-> FALSE, V |-> 0, R |-> Nil, S |-> Nil]

\* decomposed, back: decompose(signature) and its recomposition;
\* recomposed, again: recompose(V, R, S) and its decomposition
NoCodecOut == [fromSignature |-> FALSE, decomposed |-> NoDecomposed, back |-> Nil,
               fromTriple |-> FALSE, recomposed |-> Nil, again |-> NoDecomposed]

CodecIdle == codecArg = NoCodecArg /\ codecOut = NoCodecOut

NoDryCall == [method |-> "none", req |-> [gasLimit |-> 0, id |-> 0],
              env |-> [estimatorErr |-> NilErr,
                       estimate |-> [gas |-> 0, err |-> NilErr],
                       bcRes |-> [tx |-> "nil", err |-> NilErr]]]

NoDryOut ==
    [called |-> FALSE, tx |-> "nil", gas |-> 0, err |-> NilErr,
     reverted |-> NoReverted, trace |-> <<>>]

DryIdle == dryCall = NoDryCall /\ dryOut = NoDryOut

NoLastCleared ==
    [sender |-> Zeros(20), receiver |-> Zeros(20), seq |-> Zeros(8), err |-> "none"]

LedgerIdle == cleared = <<>> /\ lastCleared = NoLastCleared

NoNext ==
    [called |-> FALSE, ret |-> FALSE, read |-> <<>>, logsBefore |-> <<>>,
     logsAfter |-> <<>>, waiting |-> "open", cause |-> "none", failure |-> "nil"]

IterIdle ==
    /\ iter = NewIterator("none")
    /\ logs = <<>>
    /\ subErr = "open"
    /\ lastNext = NoNext
    /\ delivered = 0

Goroutines == {1, 2}

NoRegOut == [called |-> FALSE, err |-> "none", created |-> <<>>, calls |-> <<>>]

RegIdle ==
    /\ regArgs = [clearer |-> "none", identities |-> <<>>]
    /\ regOut = NoRegOut

WatchIdle ==
    /\ watch = NewWatch("none")
    /\ wlogs = <<>>
    /\ wsub = "open"
    /\ quit = FALSE
    /\ sinkRoom = FALSE
    /\ sunk = <<>>
    /\ wsent = 0

ParIdle ==
    /\ given = <<>>
    /\ inputs = <<>>
    /\ frames = <<>>

\* a goroutine that has not called anything
Resting ==
    [op |-> "none", pc |-> "out", ret |-> NilClient, err |-> NilErr,
     before |-> [client |-> NilClient, world |-> <<>>],
     after |-> [client |-> NilClient, world |-> <<>>],
     closedAtReturn |-> FALSE, currentAtReturn |-> NilClient]

ConnIdle ==
    /\ conn = [address |-> "none", client |-> NilClient]
    /\ world = <<>>
    /\ mu = 0
    /\ goroutines = [g \in Goroutines |-> Resting]
    /\ reconnects = 0

(***************************************************************************)
(* The signing chain on one promise, with a caller that may alter the      *)
(* IssuedPromise between the two steps                                     *)
(***************************************************************************)
SignInit == SignIdle /\ PairIdle /\ ClearIdle /\ ChanIdle /\ EncIdle /\ CodecIdle /\ DryIdle /\ ConnIdle /\ LedgerIdle /\ IterIdle /\ ParIdle /\ RegIdle /\ WatchIdle

\* a caller starts a chain: SignByPayer(promise, payer)
DoSignByPayer(promise, payer) ==
    /\ issuedRes' = SignByPayer(promise, payer)
    /\ issuedBy' = payer
    /\ forged' = "none"
    /\ receivedRes' = NoReceiverCall
    /\ receivedOf' = NoReceiverInput
    /\ UNCHANGED <<pairVars, clearVars, chanVars, encVars, codecVars, dryVars, connVars, ledgerVars, iterVars, parVars, regVars, watchVars>>

\* IssuedPromise is a plain struct: the value handed on to SignByReceiver
\* need not be the one SignByPayer returned
ForgeKinds == {"short", "recid", "amount"}

Forged(ip, kind) ==
    IF kind = "short" THEN [ip EXCEPT !.IssuerSignature = SubSeq(@, 1, 64)]
    ELSE IF kind = "recid" THEN [ip EXCEPT !.IssuerSignature[65] = 4]
    ELSE [ip EXCEPT !.Promise.Amount = IF @ = 100 THEN 90 ELSE 100]

Forge(kind) ==
    /\ issuedRes.ptr
    /\ forged = "none"
    /\ issuedRes' = [issuedRes EXCEPT !.val = Forged(@, kind)]
    /\ forged' = kind
    /\ UNCHANGED <<issuedBy, receivedRes, receivedOf>>
    /\ UNCHANGED <<pairVars, clearVars, chanVars, encVars, codecVars, dryVars, connVars, ledgerVars, iterVars, parVars, regVars, watchVars>>

\* whether crypto.Ecrecover returns an error for this IssuedPromise
RecoverFails(ip, recovers) ==
    LET hb == HashBytes(ip.Promise)
    IN  \/ EcrecoverFails(hb, ip.IssuerSignature)
        \/ (~SignedOver(hb, ip.IssuerSignature) /\ ~recovers)

\* the second step: SignByReceiver(&issued, receiver)
DoSignByReceiver(receiver, recovers) ==
    /\ issuedRes.ptr
    /\ receivedRes' = SignByReceiver(issuedRes.val, receiver, recovers)
    /\ receivedOf' =
         [promise |-> issuedRes.val, receiver |-> receiver, payer |-> issuedBy,
          forged |-> forged, recoverFailed |-> RecoverFails(issuedRes.val, recovers),
          signFailed |-> (~RecoverFails(issuedRes.val, recovers) /\ KeyFails(receiver))]
    /\ UNCHANGED <<issuedRes, issuedBy, forged>>
    /\ UNCHANGED <<pairVars, clearVars, chanVars, encVars, codecVars, dryVars, connVars, ledgerVars, iterVars, parVars, regVars, watchVars>>

SignNext ==
    \/ \E promise \in Promise, payer \in Keys : DoSignByPayer(promise, payer)
    \/ \E kind \in ForgeKinds : Forge(kind)
    \/ \E receiver \in Keys, recovers \in BOOLEAN : DoSignByReceiver(receiver, recovers)

Spec == SignInit /\ [][SignNext]_vars

(***************************************************************************)
(* Side-by-side runs of the pure functions: the same promise signed by two *)
(* payer keys and counter-signed, and a withdraw request                   *)
(***************************************************************************)
WithdrawAmounts == {-1, 90, 100}

PairInit ==
    /\ SignIdle
    /\ ClearIdle
    /\ ChanIdle
    /\ EncIdle
    /\ CodecIdle
    /\ DryIdle
    /\ ConnIdle
    /\ LedgerIdle
    /\ IterIdle
    /\ ParIdle
    /\ RegIdle
    /\ WatchIdle
    /\ args \in [promise : Promise, payerA : Keys, payerB : Keys,
                 receiver : Keys, amount : WithdrawAmounts]
    /\ laneA = NoLane
    /\ laneB = NoLane
    /\ withdrawRes = NoWithdraw

Issue(lane, payer) ==
    LET res == SignByPayer(args.promise, payer)
    IN  [lane EXCEPT !.stage = IF res.ptr THEN "IssuerSigned" ELSE "Failed",
                     !.issued = res,
                     !.issuedPre = HashPreimage(args.promise)]

\* the IssuedPromise a lane hands to SignByReceiver: the one SignByPayer
\* returned, or, when the issuer step was left out, the bare promise wrapped
\* in an IssuedPromise without a signature
Handed(lane) ==
    IF lane.stage = "Unsigned"
    THEN [Promise |-> args.promise, IssuerSignature |-> Nil]
    ELSE lane.issued.val

CounterSign(lane) ==
    LET res == SignByReceiver(Handed(lane), args.receiver, TRUE)
    IN  [lane EXCEPT !.stage = IF res.ptr THEN "CounterSigned" ELSE "Failed",
                     !.received = res]

IssueA ==
    /\ laneA.stage = "Unsigned"
    /\ laneA' = Issue(laneA, args.payerA)
    /\ UNCHANGED <<args, laneB, withdrawRes>>
    /\ UNCHANGED <<signVars, clearVars, chanVars, encVars, codecVars, dryVars, connVars, ledgerVars, iterVars, parVars, regVars, watchVars>>

IssueB ==
    /\ laneB.stage = "Unsigned"
    /\ laneB' = Issue(laneB, args.payerB)
    /\ UNCHANGED <<args, laneA, withdrawRes>>
    /\ UNCHANGED <<signVars, clearVars, chanVars, encVars, codecVars, dryVars, connVars, ledgerVars, iterVars, parVars, regVars, watchVars>>

CounterSignA ==
    /\ laneA.stage \in {"Unsigned", "IssuerSigned"}
    /\ laneA' = CounterSign(laneA)
    /\ UNCHANGED <<args, laneB, withdrawRes>>
    /\ UNCHANGED <<signVars, clearVars, chanVars, encVars, codecVars, dryVars, connVars, ledgerVars, iterVars, parVars, regVars, watchVars>>

CounterSignB ==
    /\ laneB.stage \in {"Unsigned", "IssuerSigned"}
    /\ laneB' = CounterSign(laneB)
    /\ UNCHANGED <<args, laneA, withdrawRes>>
    /\ UNCHANGED <<signVars, clearVars, chanVars, encVars, codecVars, dryVars, connVars, ledgerVars, iterVars, parVars, regVars, watchVars>>

DoNewWithdrawRequest ==
    /\ ~withdrawRes.called
    /\ withdrawRes' = [called |-> TRUE,
                       pre |-> WithdrawPreimage(args.amount),
                       res |-> NewWithdrawRequest(args.receiver, args.amount)]
    /\ UNCHANGED <<args, laneA, laneB>>
    /\ UNCHANGED <<signVars, clearVars, chanVars, encVars, codecVars, dryVars, connVars, ledgerVars, iterVars, parVars, regVars, watchVars>>

PairNext ==
    \/ IssueA
    \/ IssueB
    \/ CounterSignA
    \/ CounterSignB
    \/ DoNewWithdrawRequest

PairSpec == PairInit /\ [][PairNext]_vars

(***************************************************************************)
(* Settlement: ClearReceivedPromise on promises that went through the      *)
(* chain, against a ledger that accepts or rejects                         *)
(***************************************************************************)
\* the ReceivedPromise the chain yields for a promise, a payer key and a
\* receiver key (with an invalid receiver key its ReceiverSignature is empty)
ChainOutput ==
    [promise \in Promise, payer \in ValidKeys, receiver \in Keys |->
        SignByReceiver(SignByPayer(promise, payer).val, receiver, TRUE).val]

ClearInit ==
    /\ SignIdle
    /\ PairIdle
    /\ ClearIdle
    /\ ChanIdle
    /\ EncIdle
    /\ CodecIdle
    /\ DryIdle
    /\ ConnIdle
    /\ LedgerIdle
    /\ IterIdle
    /\ ParIdle
    /\ RegIdle
    /\ WatchIdle

\* whether the promise would lower the amount last settled on its channel
BelowSettled(promise, payer) ==
    /\ lastSettled.payer = payer
    /\ lastSettled.receiver = promise.Receiver
    /\ promise.Amount < lastSettled.amount

\* ReceivedPromise is a plain struct: a caller may hand over one whose
\* signatures are a byte short or a byte long
DamageKinds == {"none", "receiver66", "both"}

Damaged(rp, damage) ==
    IF damage = "receiver66"
    THEN [rp EXCEPT !.ReceiverSignature = @ \o <<0>>]
    ELSE IF damage = "both"
    THEN [rp EXCEPT !.IssuedPromise.IssuerSignature = @ \o <<0>>,
                    !.ReceiverSignature = SubSeq(@, 1, Len(@) - 1)]
    ELSE rp

\* the ReceivedPromise values a caller may submit, each with the promise
\* and the keys it was made from
Submissions ==
    {[promise |-> promise, payer |-> payer, receiver |-> receiver,
      received |-> Damaged(ChainOutput[promise, payer, receiver], damage)] :
        promise \in Promise, payer \in ValidKeys, receiver \in Keys, damage \in DamageKinds}

\* a caller submits a promise: pc.ClearReceivedPromise(&received); the
\* ledger call, when made, returns nil or an error
DoClearReceivedPromise(promise, payer, receiver, received, ledgerErr) ==
    LET out == ClearReceivedPromise(received, ledgerErr)
        accepted == out.calls # <<>> /\ ledgerErr = "nil"
    IN  /\ clearCount < MaxCalls
        /\ clearArg' = [promise |-> received, payer |-> payer, receiver |-> receiver]
        /\ clearOut' = [called |-> TRUE, err |-> out.err, at |-> out.at,
                        calls |-> out.calls,
                        ledgerErr |-> ledgerErr,
                        belowSettled |-> BelowSettled(promise, payer)]
        /\ clearCount' = clearCount + Len(out.calls)
        /\ lastSettled' = IF accepted
                          THEN [payer |-> payer, receiver |-> promise.Receiver,
                                amount |-> promise.Amount]
                          ELSE lastSettled
        /\ UNCHANGED <<signVars, pairVars, chanVars, encVars, codecVars, dryVars, connVars, ledgerVars, iterVars, parVars, regVars, watchVars>>

ClearNext ==
    \E sub \in Submissions, ledgerErr \in {"nil", "revert"} :
        DoClearReceivedPromise(sub.promise, sub.payer, sub.receiver, sub.received, ledgerErr)

ClearSpec == ClearInit /\ [][ClearNext]_vars

(***************************************************************************)
(* The channel: cheques that change the funds destination                  *)
(***************************************************************************)
Destinations == {ZeroAddress, Addr(170), Addr(187)}

Senders == {AddressOf(k) : k \in ValidKeys}

\* the signatures a caller may present with a cheque for (destination, nonce)
ChequeSignature(kind, newDestination, nonce) ==
    IF kind = "operator"
    THEN EthSign(Keccak256(ChequePreimage(newDestination, nonce)), OperatorKey)
    ELSE IF kind = "other"
    THEN EthSign(Keccak256(ChequePreimage(newDestination, nonce)), 2)
    ELSE IF kind = "replayed"
    THEN EthSign(Keccak256(ChequePreimage(newDestination, nonce + 1)), OperatorKey)
    ELSE Nil

ChanStart(funds) ==
    /\ chan = NewChannel(funds)
    /\ blockNumber = 1
    /\ mines = 0
    /\ lastTx = NoTx
    /\ exitAccepted = NoExit

ChequeInit ==
    /\ SignIdle
    /\ PairIdle
    /\ ClearIdle
    /\ ChanStart(100)
    /\ EncIdle
    /\ CodecIdle
    /\ DryIdle
    /\ ConnIdle
    /\ LedgerIdle
    /\ IterIdle
    /\ ParIdle
    /\ RegIdle
    /\ WatchIdle

DoSetFundsDestinationByCheque(from, newDestination, nonce, kind) ==
    LET out == SetFundsDestinationByCheque(chan, [From |-> from], blockNumber,
                   newDestination, nonce, ChequeSignature(kind, newDestination, nonce))
    IN  /\ chan' = out.st
        /\ lastTx' = [method |-> "setFundsDestinationByCheque", from |-> from,
                      to |-> newDestination, n |-> nonce, signed |-> kind,
                      err |-> out.err, before |-> chan, number |-> blockNumber,
                      paid |-> out.paid]
        /\ UNCHANGED <<blockNumber, mines, exitAccepted>>
        /\ UNCHANGED <<signVars, pairVars, clearVars, encVars, codecVars, dryVars, connVars, ledgerVars, iterVars, parVars, regVars, watchVars>>

ChequeNext ==
    \E from \in Senders, newDestination \in Destinations, nonce \in 0..MaxNonce,
       kind \in {"operator", "other", "replayed", "none"} :
        DoSetFundsDestinationByCheque(from, newDestination, nonce, kind)

ChequeSpec == ChequeInit /\ [][ChequeNext]_vars

(***************************************************************************)
(* The channel: timelocked exit                                            *)
(***************************************************************************)
ExitSignature(kind, beneficiary, validUntil) ==
    IF kind = "operator"
    THEN EthSign(Keccak256(ExitPreimage(beneficiary, validUntil)), OperatorKey)
    ELSE IF kind = "other"
    THEN EthSign(Keccak256(ExitPreimage(beneficiary, validUntil)), 2)
    ELSE IF kind = "replayed"
    THEN EthSign(Keccak256(ExitPreimage(beneficiary, validUntil + 1)), OperatorKey)
    ELSE Nil

ExitInit ==
    /\ SignIdle
    /\ PairIdle
    /\ ClearIdle
    /\ ChanStart(100)
    /\ EncIdle
    /\ CodecIdle
    /\ DryIdle
    /\ ConnIdle
    /\ LedgerIdle
    /\ IterIdle
    /\ ParIdle
    /\ RegIdle
    /\ WatchIdle

DoRequestExit(from, beneficiary, ahead, kind) ==
    LET validUntil == blockNumber + ahead
        out == RequestExit(chan, [From |-> from], blockNumber, beneficiary,
                   validUntil, ExitSignature(kind, beneficiary, validUntil))
    IN  /\ chan' = out.st
        /\ lastTx' = [method |-> "requestExit", from |-> from, to |-> beneficiary,
                      n |-> validUntil, signed |-> kind, err |-> out.err,
                      before |-> chan, number |-> blockNumber, paid |-> out.paid]
        /\ exitAccepted' =
              IF out.err = "nil"
              THEN [beneficiary |-> beneficiary, timelock |-> GetTimelock(blockNumber),
                    pending |-> TRUE, wasPending |-> FALSE,
                    outstanding |-> exitAccepted.outstanding + 1]
              ELSE exitAccepted
        /\ UNCHANGED <<blockNumber, mines>>
        /\ UNCHANGED <<signVars, pairVars, clearVars, encVars, codecVars, dryVars, connVars, ledgerVars, iterVars, parVars, regVars, watchVars>>

DoFinalizeExit(from) ==
    LET out == FinalizeExit(chan, [From |-> from], blockNumber)
    IN  /\ chan' = out.st
        /\ lastTx' = [method |-> "finalizeExit", from |-> from, to |-> ZeroAddress,
                      n |-> 0, signed |-> "none", err |-> out.err,
                      before |-> chan, number |-> blockNumber, paid |-> out.paid]
        /\ exitAccepted' = [exitAccepted EXCEPT
                               !.pending = IF out.err = "nil" THEN FALSE ELSE @,
                               !.wasPending = exitAccepted.pending,
                               !.outstanding = IF out.err = "nil" THEN @ - 1 ELSE @]
        /\ UNCHANGED <<blockNumber, mines>>
        /\ UNCHANGED <<signVars, pairVars, clearVars, encVars, codecVars, dryVars, connVars, ledgerVars, iterVars, parVars, regVars, watchVars>>

\* the chain advances by one block or by one block less than the delay
Mine(blocks) ==
    /\ mines < MaxMines
    /\ mines' = mines + 1
    /\ blockNumber' = blockNumber + blocks
    /\ UNCHANGED <<chan, lastTx, exitAccepted>>
    /\ UNCHANGED <<signVars, pairVars, clearVars, encVars, codecVars, dryVars, connVars, ledgerVars, iterVars, parVars, regVars, watchVars>>

ExitNext ==
    \/ \E from \in Senders, beneficiary \in Destinations,
          ahead \in {0, 1, DELAY_BLOCKS},
          kind \in {"operator", "other", "replayed"} :
           DoRequestExit(from, beneficiary, ahead, kind)
    \/ \E from \in Senders : DoFinalizeExit(from)
    \/ \E blocks \in {1, DELAY_BLOCKS - 1} : Mine(blocks)

ExitSpec == ExitInit /\ [][ExitNext]_vars

(***************************************************************************)
(* Promise encoding: HashBytes and SignByPayer on any two promises         *)
(***************************************************************************)
EncodeInit ==
    /\ SignIdle
    /\ PairIdle
    /\ ClearIdle
    /\ ChanIdle
    /\ CodecIdle
    /\ DryIdle
    /\ ConnIdle
    /\ LedgerIdle
    /\ IterIdle
    /\ ParIdle
    /\ RegIdle
    /\ WatchIdle
    /\ encArgs \in [p : AnyPromise, q : AnyPromise, payer : Keys]
    /\ encOut = NoEncOut

\* p.HashBytes() and q.HashBytes()
DoHashBytes ==
    /\ ~encOut.hashed
    /\ encOut' = [encOut EXCEPT !.hashed = TRUE,
                                !.preP = HashPreimage(encArgs.p),
                                !.preQ = HashPreimage(encArgs.q),
                                !.hashP = HashBytes(encArgs.p)]
    /\ UNCHANGED encArgs
    /\ UNCHANGED <<signVars, pairVars, clearVars, chanVars, codecVars, dryVars, connVars, ledgerVars, iterVars, parVars, regVars, watchVars>>

\* SignByPayer(&p, payer)
DoSignEncoded ==
    /\ encOut.signed = NoCall
    /\ encOut' = [encOut EXCEPT !.signed = SignByPayer(encArgs.p, encArgs.payer)]
    /\ UNCHANGED encArgs
    /\ UNCHANGED <<signVars, pairVars, clearVars, chanVars, codecVars, dryVars, connVars, ledgerVars, iterVars, parVars, regVars, watchVars>>

EncodeNext == DoHashBytes \/ DoSignEncoded

EncodeSpec == EncodeInit /\ [][EncodeNext]_vars

(***************************************************************************)
(* The signature codec on any 65-byte signature and any (v, r, s)          *)
(***************************************************************************)
CodecWords == {Zeros(32), U256(1), U256(-2)}

CodecVs == {0, 1, 28}

CodecInit ==
    /\ SignIdle
    /\ PairIdle
    /\ ClearIdle
    /\ ChanIdle
    /\ EncIdle
    /\ DryIdle
    /\ ConnIdle
    /\ LedgerIdle
    /\ IterIdle
    /\ ParIdle
    /\ RegIdle
    /\ WatchIdle
    /\ \E r1 \in CodecWords, s1 \in CodecWords, v1 \in CodecVs,
          r2 \in CodecWords, s2 \in CodecWords, v2 \in CodecVs :
           codecArg = [signature |-> r1 \o s1 \o <<v1>>, V |-> v2, R |-> r2, S |-> s2]
    /\ codecOut = NoCodecOut

\* recompose(decompose(signature))
DoDecomposeRecompose ==
    LET d == DecomposeSignature(codecArg.signature)
    IN  /\ ~codecOut.fromSignature
        /\ codecOut' = [codecOut EXCEPT !.fromSignature = TRUE, !.decomposed = d,
                                        !.back = RecomposeSignature(d.V, d.R, d.S)]
        /\ UNCHANGED codecArg
        /\ UNCHANGED <<signVars, pairVars, clearVars, chanVars, encVars, dryVars, connVars, ledgerVars, iterVars, parVars, regVars, watchVars>>

\* decompose(recompose(v, r, s))
DoRecomposeDecompose ==
    LET sig == RecomposeSignature(codecArg.V, codecArg.R, codecArg.S)
    IN  /\ ~codecOut.fromTriple
        /\ codecOut' = [codecOut EXCEPT !.fromTriple = TRUE, !.recomposed = sig,
                                        !.again = DecomposeSignature(sig)]
        /\ UNCHANGED codecArg
        /\ UNCHANGED <<signVars, pairVars, clearVars, chanVars, encVars, dryVars, connVars, ledgerVars, iterVars, parVars, regVars, watchVars>>

CodecNext == DoDecomposeRecompose \/ DoRecomposeDecompose

CodecSpec == CodecInit /\ [][CodecNext]_vars

(***************************************************************************)
(* WithDryRuns: one call after another on a client                         *)
(***************************************************************************)
DryInit ==
    /\ SignIdle
    /\ PairIdle
    /\ ClearIdle
    /\ ChanIdle
    /\ EncIdle
    /\ CodecIdle
    /\ DryIdle
    /\ ConnIdle
    /\ LedgerIdle
    /\ IterIdle
    /\ ParIdle
    /\ RegIdle
    /\ WatchIdle

\* what a write method's call leaves behind
Written(out) ==
    [called |-> TRUE, tx |-> out.tx, gas |-> 0, err |-> out.err,
     reverted |-> NoReverted, trace |-> out.trace]

DoEstimate(req, env) ==
    LET out == Estimate(req, env)
    IN  /\ dryCall' = [method |-> "Estimate", req |-> req, env |-> env]
        /\ dryOut' = [called |-> TRUE, tx |-> "nil", gas |-> out.gas, err |-> out.err,
                      reverted |-> NoReverted, trace |-> out.trace]
        /\ UNCHANGED <<signVars, pairVars, clearVars, chanVars, encVars, codecVars, connVars, ledgerVars, iterVars, parVars, regVars, watchVars>>

DoDryRun(req, env) ==
    LET out == DryRun(req, env)
    IN  /\ dryCall' = [method |-> "DryRun", req |-> req, env |-> env]
        /\ dryOut' = [called |-> TRUE, tx |-> "nil", gas |-> 0, err |-> out.err,
                      reverted |-> out.reverted, trace |-> out.trace]
        /\ UNCHANGED <<signVars, pairVars, clearVars, chanVars, encVars, codecVars, connVars, ledgerVars, iterVars, parVars, regVars, watchVars>>

DoRead(method, arguments, env) ==
    /\ dryCall' = [method |-> method, req |-> arguments, env |-> env]
    /\ dryOut' = Written(Read(method, arguments, env))
    /\ UNCHANGED <<signVars, pairVars, clearVars, chanVars, encVars, codecVars, connVars, ledgerVars, iterVars, parVars, regVars, watchVars>>

DoTransferEth(req, env) ==
    /\ dryCall' = [method |-> "TransferEth", req |-> req, env |-> env]
    /\ dryOut' = Written(TransferEth(req, env))
    /\ UNCHANGED <<signVars, pairVars, clearVars, chanVars, encVars, codecVars, connVars, ledgerVars, iterVars, parVars, regVars, watchVars>>

DoTransferMyst(req, env) ==
    /\ dryCall' = [method |-> "TransferMyst", req |-> req, env |-> env]
    /\ dryOut' = Written(TransferMyst(req, env))
    /\ UNCHANGED <<signVars, pairVars, clearVars, chanVars, encVars, codecVars, connVars, ledgerVars, iterVars, parVars, regVars, watchVars>>

DoSettlePromise(req, env) ==
    /\ dryCall' = [method |-> "SettlePromise", req |-> req, env |-> env]
    /\ dryOut' = Written(SettlePromise(req, env))
    /\ UNCHANGED <<signVars, pairVars, clearVars, chanVars, encVars, codecVars, connVars, ledgerVars, iterVars, parVars, regVars, watchVars>>

DoRegisterIdentity(req, env) ==
    /\ dryCall' = [method |-> "RegisterIdentity", req |-> req, env |-> env]
    /\ dryOut' = Written(RegisterIdentity(req, env))
    /\ UNCHANGED <<signVars, pairVars, clearVars, chanVars, encVars, codecVars, connVars, ledgerVars, iterVars, parVars, regVars, watchVars>>

DoSettleAndRebalance(req, env) ==
    /\ dryCall' = [method |-> "SettleAndRebalance", req |-> req, env |-> env]
    /\ dryOut' = Written(SettleAndRebalance(req, env))
    /\ UNCHANGED <<signVars, pairVars, clearVars, chanVars, encVars, codecVars, connVars, ledgerVars, iterVars, parVars, regVars, watchVars>>

DoSettleWithBeneficiary(req, env) ==
    /\ dryCall' = [method |-> "SettleWithBeneficiary", req |-> req, env |-> env]
    /\ dryOut' = Written(SettleWithBeneficiary(req, env))
    /\ UNCHANGED <<signVars, pairVars, clearVars, chanVars, encVars, codecVars, connVars, ledgerVars, iterVars, parVars, regVars, watchVars>>

DoDecreaseProviderStake(req, env) ==
    /\ dryCall' = [method |-> "DecreaseProviderStake", req |-> req, env |-> env]
    /\ dryOut' = Written(DecreaseProviderStake(req, env))
    /\ UNCHANGED <<signVars, pairVars, clearVars, chanVars, encVars, codecVars, connVars, ledgerVars, iterVars, parVars, regVars, watchVars>>

DoSettleIntoStake(req, env) ==
    /\ dryCall' = [method |-> "SettleIntoStake", req |-> req, env |-> env]
    /\ dryOut' = Written(SettleIntoStake(req, env))
    /\ UNCHANGED <<signVars, pairVars, clearVars, chanVars, encVars, codecVars, connVars, ledgerVars, iterVars, parVars, regVars, watchVars>>

DoIncreaseProviderStake(req, env) ==
    /\ dryCall' = [method |-> "IncreaseProviderStake", req |-> req, env |-> env]
    /\ dryOut' = Written(IncreaseProviderStake(req, env))
    /\ UNCHANGED <<signVars, pairVars, clearVars, chanVars, encVars, codecVars, connVars, ledgerVars, iterVars, parVars, regVars, watchVars>>

DryWrite ==
    \E req \in Requests, env \in Envs :
        \/ DoEstimate(req, env)
        \/ DoTransferEth(req, env)
        \/ DoTransferMyst(req, env)
        \/ DoSettlePromise(req, env)
        \/ DoRegisterIdentity(req, env)
        \/ DoSettleAndRebalance(req, env)
        \/ DoSettleWithBeneficiary(req, env)
        \/ DoDecreaseProviderStake(req, env)
        \/ DoSettleIntoStake(req, env)
        \/ DoIncreaseProviderStake(req, env)

DryNext ==
    \/ \E req \in Requests, env \in DryRunEnvs : DoDryRun(req, env)
    \/ \E method \in ReadMethods, arguments \in ReadArgs, env \in Envs :
          DoRead(method, arguments, env)
    \/ DryWrite

DryRunSpec == DryInit /\ [][DryNext]_vars

(***************************************************************************)
(* Settlement against a ledger that keeps the last cleared sequence number *)
(***************************************************************************)
LedgerSeqNos == {-1, 1, 2}

\* co-signed promises of every payer for every receiver, by sequence number
LedgerSubmissions ==
    {[payer |-> payer, SeqNo |-> seqNo,
      received |-> SignByReceiver(
                       SignByPayer([Receiver |-> receiver, SeqNo |-> seqNo,
                                    Amount |-> 100], payer).val, 2, TRUE).val] :
        payer \in ValidKeys, receiver \in Receivers, seqNo \in LedgerSeqNos}

LedgerInit ==
    /\ SignIdle
    /\ PairIdle
    /\ ClearIdle
    /\ ChanIdle
    /\ EncIdle
    /\ CodecIdle
    /\ DryIdle
    /\ ConnIdle
    /\ IterIdle
    /\ ParIdle
    /\ RegIdle
    /\ WatchIdle
    /\ cleared = NewLedger(Senders, Receivers)
    /\ lastCleared = NoLastCleared

\* pc.ClearReceivedPromise(&received) against the ledger
Settle(payer, received) ==
    LET sent == ClearReceivedPromise(received, "nil")
        ledger == LedgerClearPromise(cleared, AddressOf(payer), sent.calls[1])
        out == ClearReceivedPromise(received, ledger.err)
    IN  /\ clearCount < MaxCalls
        /\ clearArg' = [promise |-> received, payer |-> payer, receiver |-> 2]
        /\ clearOut' = [called |-> TRUE, err |-> out.err, at |-> out.at,
                        calls |-> out.calls, ledgerErr |-> ledger.err,
                        belowSettled |-> FALSE]
        /\ clearCount' = clearCount + 1
        /\ cleared' = ledger.cleared
        /\ UNCHANGED <<lastSettled, lastCleared>>
        /\ UNCHANGED <<signVars, pairVars, chanVars, encVars, codecVars, dryVars, connVars,
                       iterVars, parVars, regVars, watchVars>>

DoLastClearedPromise(sender, receiver, callErr) ==
    LET out == LastClearedPromise(cleared, sender, receiver, callErr)
    IN  /\ lastCleared' = [sender |-> sender, receiver |-> receiver,
                           seq |-> out.seq, err |-> out.err]
        /\ UNCHANGED cleared
        /\ UNCHANGED <<signVars, pairVars, clearVars, chanVars, encVars, codecVars,
                       dryVars, connVars, iterVars, parVars, regVars, watchVars>>

LedgerNext ==
    \/ \E sub \in LedgerSubmissions : Settle(sub.payer, sub.received)
    \/ \E sender \in Senders, receiver \in Receivers, callErr \in {"nil", "rpc error"} :
          DoLastClearedPromise(sender, receiver, callErr)

LedgerSpec == LedgerInit /\ [][LedgerNext]_vars

(***************************************************************************)
(* Two goroutines hashing and signing side by side                         *)
(***************************************************************************)
\* the calls a goroutine may make, each on a value of its own
Calls ==
    {[op |-> "HashBytes", promise |-> p, key |-> 0] : p \in Promise}
    \cup {[op |-> "SignByPayer", promise |-> p, key |-> k] : p \in Promise, k \in Keys}
    \cup {[op |-> "SignByReceiver", promise |-> SignByPayer(p, 1).val, key |-> k] :
              p \in Promise, k \in ValidKeys}
    \cup {[op |-> "SignByReceiver",
           promise |-> [Promise |-> p, IssuerSignature |-> Zeros(64)], key |-> 2] :
              p \in Promise}

ParInit ==
    /\ SignIdle
    /\ PairIdle
    /\ ClearIdle
    /\ ChanIdle
    /\ EncIdle
    /\ CodecIdle
    /\ DryIdle
    /\ ConnIdle
    /\ LedgerIdle
    /\ IterIdle
    /\ RegIdle
    /\ WatchIdle
    /\ given \in [Goroutines -> Calls]
    /\ inputs = given
    /\ frames = [g \in Goroutines |-> NewFrame]

\* goroutine g runs its next statement
Run(g) ==
    /\ frames[g].pc # "returned"
    /\ frames' = Statement(inputs, frames, g)
    /\ UNCHANGED <<given, inputs>>
    /\ UNCHANGED <<signVars, pairVars, clearVars, chanVars, encVars, codecVars,
                   dryVars, connVars, ledgerVars, iterVars, regVars, watchVars>>

ParNext == \E g \in Goroutines : Run(g)

ParSpec == ParInit /\ [][ParNext]_vars

(***************************************************************************)
(* An event iterator, its subscription and its caller                      *)
(***************************************************************************)
IterInit ==
    /\ SignIdle
    /\ PairIdle
    /\ ClearIdle
    /\ ChanIdle
    /\ EncIdle
    /\ CodecIdle
    /\ DryIdle
    /\ ConnIdle
    /\ LedgerIdle
    /\ ParIdle
    /\ RegIdle
    /\ WatchIdle
    /\ \E event \in EventNames : iter = NewIterator(event)
    /\ logs = <<>>
    /\ subErr = "open"
    /\ lastNext = NoNext
    /\ delivered = 0

IterOthers ==
    UNCHANGED <<signVars, pairVars, clearVars, chanVars, encVars, codecVars, dryVars,
                connVars, ledgerVars, parVars, regVars, watchVars>>

\* the subscription delivers a log, one that unpacks or one that does not
Deliver(unpacks) ==
    /\ subErr = "open"
    /\ delivered < MaxLogs
    /\ delivered' = delivered + 1
    /\ logs' = Append(logs, [id |-> delivered + 1, unpacks |-> unpacks])
    /\ UNCHANGED <<iter, subErr, lastNext>>
    /\ IterOthers

\* the subscription ends: with an error on sub.Err(), or by closing it
EndSubscription(how) ==
    /\ subErr = "open"
    /\ subErr' = how
    /\ UNCHANGED <<iter, logs, lastNext, delivered>>
    /\ IterOthers

\* the caller calls it.Next(); a Next that has to wait takes the case pick,
\* which must be ready
DoNext(pick) ==
    LET out == Next(iter, logs, subErr, pick)
        waits == iter.fail = "nil" /\ ~iter.done
        cause == IF out.ret \/ out.read = <<>> THEN "none"
                 ELSE IF out.read[Len(out.read)] = "log" THEN "unpack error"
                 ELSE IF subErr # "closed" THEN "subscription error"
                 ELSE "none"
    IN  /\ waits => IF pick = "log" THEN logs # <<>> ELSE subErr # "open"
        /\ ~waits => pick = "log"
        /\ iter' = out.it
        /\ logs' = out.logs
        /\ subErr' = out.sub
        /\ lastNext' = [called |-> TRUE, ret |-> out.ret, read |-> out.read,
                        logsBefore |-> logs, logsAfter |-> out.logs,
                        waiting |-> subErr, cause |-> cause,
                        failure |-> IF lastNext.failure # "nil" THEN lastNext.failure
                                    ELSE IF cause = "unpack error" THEN "unpack failed"
                                    ELSE IF cause = "subscription error" THEN subErr
                                    ELSE "nil"]
        /\ UNCHANGED delivered
        /\ IterOthers

IterNext ==
    \/ \E unpacks \in BOOLEAN : Deliver(unpacks)
    \/ \E how \in {"subscription failed", "closed"} : EndSubscription(how)
    \/ \E pick \in {"log", "err"} : DoNext(pick)

IterSpec == IterInit /\ [][IterNext]_vars

(***************************************************************************)
(* A Watch loop, its log subscription, its sink and its quit channel       *)
(***************************************************************************)
WatchInit ==
    /\ SignIdle
    /\ PairIdle
    /\ ClearIdle
    /\ ChanIdle
    /\ EncIdle
    /\ CodecIdle
    /\ DryIdle
    /\ ConnIdle
    /\ LedgerIdle
    /\ IterIdle
    /\ ParIdle
    /\ RegIdle
    /\ \E event \in EventNames : watch = NewWatch(event)
    /\ wlogs = <<>>
    /\ wsub = "open"
    /\ quit = FALSE
    /\ sinkRoom = FALSE
    /\ sunk = <<>>
    /\ wsent = 0

WatchOthers ==
    UNCHANGED <<signVars, pairVars, clearVars, chanVars, encVars, codecVars, dryVars,
                connVars, ledgerVars, iterVars, parVars, regVars>>

\* the log subscription delivers a log, one that unpacks or one that does not
WatchDeliver(unpacks) ==
    /\ wsub = "open"
    /\ wsent < MaxLogs
    /\ wsent' = wsent + 1
    /\ wlogs' = Append(wlogs, [id |-> wsent + 1, unpacks |-> unpacks])
    /\ UNCHANGED <<watch, wsub, quit, sinkRoom, sunk>>
    /\ WatchOthers

\* the log subscription ends: with an error on sub.Err(), or by closing it
WatchEnd(how) ==
    /\ wsub = "open"
    /\ ~watch.unsubscribed
    /\ wsub' = how
    /\ UNCHANGED <<watch, wlogs, quit, sinkRoom, sunk, wsent>>
    /\ WatchOthers

\* the subscription NewSubscription returned is unsubscribed: quit is closed
SignalQuit ==
    /\ ~quit
    /\ quit' = TRUE
    /\ UNCHANGED <<watch, wlogs, wsub, sinkRoom, sunk, wsent>>
    /\ WatchOthers

\* the reader of the sink comes to take an event
SinkReady ==
    /\ ~sinkRoom
    /\ sinkRoom' = TRUE
    /\ UNCHANGED <<watch, wlogs, wsub, quit, sunk, wsent>>
    /\ WatchOthers

\* case log := <-logs
WatchLog ==
    /\ "log" \in Ready(watch, wlogs, wsub, quit, sinkRoom)
    /\ watch' = WatchStep(watch, wlogs, wsub, sunk, "log").w
    /\ wlogs' = WatchStep(watch, wlogs, wsub, sunk, "log").logs
    /\ UNCHANGED <<wsub, quit, sinkRoom, sunk, wsent>>
    /\ WatchOthers

\* case sink <- event
WatchSend ==
    /\ "sink" \in Ready(watch, wlogs, wsub, quit, sinkRoom)
    /\ watch' = WatchStep(watch, wlogs, wsub, sunk, "sink").w
    /\ sunk' = WatchStep(watch, wlogs, wsub, sunk, "sink").sunk
    /\ sinkRoom' = FALSE
    /\ UNCHANGED <<wlogs, wsub, quit, wsent>>
    /\ WatchOthers

\* case err := <-sub.Err(), in either select
WatchErr ==
    /\ "err" \in Ready(watch, wlogs, wsub, quit, sinkRoom)
    /\ watch' = WatchStep(watch, wlogs, wsub, sunk, "err").w
    /\ wsub' = WatchStep(watch, wlogs, wsub, sunk, "err").sub
    /\ sunk' = WatchStep(watch, wlogs, wsub, sunk, "err").sunk
    /\ UNCHANGED <<wlogs, quit, sinkRoom, wsent>>
    /\ WatchOthers

\* case <-quit, in either select
WatchQuit ==
    /\ "quit" \in Ready(watch, wlogs, wsub, quit, sinkRoom)
    /\ watch' = WatchStep(watch, wlogs, wsub, sunk, "quit").w
    /\ sunk' = WatchStep(watch, wlogs, wsub, sunk, "quit").sunk
    /\ UNCHANGED <<wlogs, wsub, quit, sinkRoom, wsent>>
    /\ WatchOthers

WatchNext ==
    \/ \E unpacks \in BOOLEAN : WatchDeliver(unpacks)
    \/ \E how \in {"subscription failed", "closed"} : WatchEnd(how)
    \/ SignalQuit
    \/ SinkReady
    \/ WatchLog
    \/ WatchSend
    \/ WatchErr
    \/ WatchQuit

WatchSpec == WatchInit /\ [][WatchNext]_vars

\* select picks among its ready cases at random: a case that stays ready
\* is taken in the end
WatchLiveSpec == WatchSpec /\ WF_vars(WatchErr) /\ WF_vars(WatchQuit)

(***************************************************************************)
(* ReconnectableEthClient: goroutines calling Client and Reconnect         *)
(***************************************************************************)
ConnInit ==
    /\ SignIdle
    /\ PairIdle
    /\ ClearIdle
    /\ ChanIdle
    /\ EncIdle
    /\ CodecIdle
    /\ DryIdle
    /\ LedgerIdle
    /\ IterIdle
    /\ ParIdle
    /\ RegIdle
    /\ WatchIdle
    /\ conn = NewReconnectableEthClient("ws://node").c
    /\ world = NewReconnectableEthClient("ws://node").world
    /\ mu = 0
    /\ goroutines = [g \in Goroutines |-> Resting]
    /\ reconnects = 0

Snapshot == [client |-> conn.client, world |-> world]

ConnOthers ==
    UNCHANGED <<signVars, pairVars, clearVars, chanVars, encVars, codecVars, dryVars, ledgerVars, iterVars, parVars, regVars, watchVars>>

\* goroutine g calls op and passes c.mu.Lock()
Lock(g, op) ==
    /\ goroutines[g].pc = "out"
    /\ mu = 0
    /\ op = "Reconnect" => reconnects < MaxReconnects
    /\ mu' = g
    /\ goroutines' = [goroutines EXCEPT ![g] = [Resting EXCEPT !.op = op, !.pc = "locked"]]
    /\ reconnects' = IF op = "Reconnect" THEN reconnects + 1 ELSE reconnects
    /\ UNCHANGED <<conn, world>>
    /\ ConnOthers

\* the body of Client up to the deferred Unlock
DoClient(g) ==
    /\ goroutines[g].pc = "locked"
    /\ goroutines[g].op = "Client"
    /\ mu = g
    /\ goroutines' = [goroutines EXCEPT ![g] =
                          [@ EXCEPT !.pc = "unlocked", !.ret = Client(conn),
                                    !.before = Snapshot, !.after = Snapshot]]
    /\ mu' = 0
    /\ UNCHANGED <<conn, world, reconnects>>
    /\ ConnOthers

\* the body of Reconnect up to the deferred Unlock
DoReconnect(g, reachable) ==
    LET out == Reconnect(conn, world, reachable)
    IN  /\ goroutines[g].pc = "locked"
        /\ goroutines[g].op = "Reconnect"
        /\ mu = g
        /\ conn' = out.c
        /\ world' = out.world
        /\ goroutines' = [goroutines EXCEPT ![g] =
                              [@ EXCEPT !.pc = "unlocked", !.err = out.err,
                                        !.before = Snapshot,
                                        !.after = [client |-> out.c.client,
                                                   world |-> out.world]]]
        /\ mu' = 0
        /\ UNCHANGED reconnects
        /\ ConnOthers

\* the call returns to its caller
Return(g) ==
    /\ goroutines[g].pc = "unlocked"
    /\ goroutines' = [goroutines EXCEPT ![g] =
                          [@ EXCEPT !.pc = "out",
                                    !.closedAtReturn =
                                        /\ goroutines[g].op = "Client"
                                        /\ goroutines[g].ret # NilClient
                                        /\ world[goroutines[g].ret] > 0,
                                    !.currentAtReturn = conn.client]]
    /\ UNCHANGED <<conn, world, mu, reconnects>>
    /\ ConnOthers

ConnNext ==
    \E g \in Goroutines :
        \/ \E op \in {"Client", "Reconnect"} : Lock(g, op)
        \/ DoClient(g)
        \/ \E reachable \in BOOLEAN : DoReconnect(g, reachable)
        \/ Return(g)

ConnSpec == ConnInit /\ [][ConnNext]_vars

(***************************************************************************)
(* Properties of the signing chain                                         *)
(***************************************************************************)
\* C1: when Ecrecover fails on the IssuerSignature, SignByReceiver returns an
\* error and no ReceivedPromise, and hashes or signs nothing
C1_RecoverFailureAborts ==
    receivedOf.recoverFailed =>
        /\ ~receivedRes.ptr
        /\ receivedRes.err \notin {"nil", "none"}
        /\ receivedRes.val = NoReceived
        /\ receivedRes.pre = Nil

C1_Witness ==
    /\ receivedOf.recoverFailed
    /\ receivedOf.forged \in {"short", "recid"}
    /\ receivedRes.err = "InvalidSignature"

\* C2: when signing the counter-signature hash fails, SignByReceiver returns
\* the error and no ReceivedPromise
C2_CounterSignFailureIsFatal ==
    receivedOf.signFailed =>
        /\ ~receivedRes.ptr
        /\ receivedRes.err \notin {"nil", "none"}

\* C10: the address recovered from (hash(P), SignByPayer(P, k).IssuerSignature)
\* is the address of k, and it is the payer address SignByReceiver embeds
C10_RecoveredIsPayer ==
    /\ (issuedRes.ptr /\ forged = "none") =>
          LET h == HashBytes(issuedRes.val.Promise)
              sig == issuedRes.val.IssuerSignature
          IN  /\ ~EcrecoverFails(h, sig)
              /\ PubkeyToAddress(Ecrecover(h, sig)) = AddressOf(issuedBy)
    /\ (receivedRes.ptr /\ receivedOf.forged = "none") =>
          receivedRes.pre =
              receiverPrefix \o HashBytes(receivedOf.promise.Promise)
                             \o AddressOf(receivedOf.payer)

C10_Witness ==
    /\ receivedRes.ptr
    /\ receivedOf.forged = "none"
    /\ receivedOf.payer = 2
    /\ issuedRes.ptr

HasPrefix(data, prefix) ==
    /\ Len(data) >= Len(prefix)
    /\ SubSeq(data, 1, Len(prefix)) = prefix

\* C8: the bytes SignByReceiver hashes and signs are receiverPrefix, h1 and
\* the address recovered from (h1, IssuerSignature); the same promise signed
\* by two different payer keys gives two different preimages
C8_CounterHashBindsPayer ==
    /\ \A lane \in {laneA, laneB} :
          lane.stage = "CounterSigned" =>
             LET ip == lane.issued.val
                 h1 == HashBytes(ip.Promise)
                 payerAddress == PubkeyToAddress(Ecrecover(h1, ip.IssuerSignature))
             IN  /\ lane.received.pre = receiverPrefix \o h1 \o payerAddress
                 /\ ~KeyFails(args.receiver) =>
                       lane.received.val.ReceiverSignature =
                           Sign(Keccak256(receiverPrefix \o h1 \o payerAddress),
                                args.receiver)
    /\ (/\ laneA.stage = "CounterSigned"
        /\ laneB.stage = "CounterSigned"
        /\ args.payerA # args.payerB) => laneA.received.pre # laneB.received.pre

C8_Witness ==
    /\ laneA.stage = "CounterSigned"
    /\ laneB.stage = "CounterSigned"
    /\ args.payerA # args.payerB
    /\ ~KeyFails(args.receiver)

\* the bytes each protocol step has hashed in this run, with the step's tag
Hashed ==
    {<<issuerPrefix, lane.issuedPre>> : lane \in {l \in {laneA, laneB} : l.issuedPre # Nil}}
    \cup {<<receiverPrefix, lane.received.pre>> :
             lane \in {l \in {laneA, laneB} : l.received.pre # Nil}}
    \cup (IF withdrawRes.called THEN {<<withDrawPrefix, withdrawRes.pre>>} ELSE {})

\* C9: the three prefix tags are pairwise distinct, every step hashes bytes
\* that begin with its own tag, and the bytes hashed by one step never equal
\* the bytes hashed by another
C9_DomainSeparation ==
    /\ \A t1, t2 \in {issuerPrefix, receiverPrefix, withDrawPrefix} :
          t1 # t2 => ~HasPrefix(t1, t2)
    /\ \A h \in Hashed : HasPrefix(h[2], h[1])
    /\ \A h1, h2 \in Hashed : h1[1] # h2[1] => h1[2] # h2[2]

C9_Witness ==
    /\ laneA.stage = "CounterSigned"
    /\ withdrawRes.called
    /\ Cardinality(Hashed) >= 3

(***************************************************************************)
(* Properties of the settlement encoding                                   *)
(***************************************************************************)
WellFormed(promise) ==
    /\ Len(promise.IssuedPromise.IssuerSignature) = 65
    /\ Len(promise.ReceiverSignature) = 65

\* C3: a promise whose amount is below the amount last settled on its channel
\* is rejected by ClearReceivedPromise before any ledger call
C3_NoDowngradeSubmitted ==
    clearOut.belowSettled =>
        /\ clearOut.calls = <<>>
        /\ clearOut.err \notin {"nil", "none"}

\* C6: the packed word has bytes 0..9 zero, byte 10 the issuer signature's V,
\* byte 11 the counter-signer's V and bytes 12..31 the Receiver address
C6_PackedWordLayout ==
    (clearOut.called /\ WellFormed(clearArg.promise)) =>
        /\ Len(clearOut.calls) = 1
        /\ LET word == clearOut.calls[1][1]
               ip == clearArg.promise.IssuedPromise
           IN  /\ Len(word) = 32
               /\ \A i \in 1..10 : word[i] = 0
               /\ word[11] = DecomposeSignature(ip.IssuerSignature).V
               /\ word[12] = DecomposeSignature(clearArg.promise.ReceiverSignature).V
               /\ SubSeq(word, 13, 32) = ip.Promise.Receiver

C6_Witness ==
    /\ clearOut.called
    /\ WellFormed(clearArg.promise)
    /\ DecomposeSignature(clearArg.promise.IssuedPromise.IssuerSignature).V
         # DecomposeSignature(clearArg.promise.ReceiverSignature).V

\* C7: on two well-formed signatures ClearReceivedPromise makes exactly one
\* ClearPromise call, with (packedWord, extraDataHash, SeqNo, Amount,
\* issuer R, issuer S, counter-signer R, counter-signer S), and returns the
\* error of that call
C7_OneCallInOrder ==
    (clearOut.called /\ WellFormed(clearArg.promise)) =>
        /\ Len(clearOut.calls) = 1
        /\ clearOut.err = clearOut.ledgerErr
        /\ LET call == clearOut.calls[1]
               rp == clearArg.promise
               ip == rp.IssuedPromise
               issuer == DecomposeSignature(ip.IssuerSignature)
               counter == DecomposeSignature(rp.ReceiverSignature)
           IN  /\ Len(call) = 8
               /\ call[1] = Zeros(10) \o <<issuer.V, counter.V>> \o ip.Promise.Receiver
               /\ call[2] = ConsumerHash(rp)
               /\ call[3] = ip.Promise.SeqNo
               /\ call[4] = ip.Promise.Amount
               /\ call[5] = issuer.R
               /\ call[6] = issuer.S
               /\ call[7] = counter.R
               /\ call[8] = counter.S

C7_Witness ==
    /\ clearOut.called
    /\ WellFormed(clearArg.promise)
    /\ clearArg.payer # clearArg.receiver
    /\ clearOut.ledgerErr = "revert"
    /\ clearCount >= 1

(***************************************************************************)
(* Properties of the channel                                               *)
(***************************************************************************)
StaleNonce == "nonce have to be bigger than last one"

ExitNotMatured == "exit have to be requested and timelock have to be in past"

ChequeSent == lastTx.method = "setFundsDestinationByCheque"

\* the nonce of the last cheque is not above the nonce stored when it was sent
ChequeStale == ChequeSent /\ lastTx.n <= lastTx.before.lastNonce

ChequeAccepted == ChequeSent /\ lastTx.err = "nil"

\* C4 (as stated): a cheque is accepted only with a nonce strictly greater
\* than the last accepted one, and every cheque that repeats the last
\* accepted nonce or goes below it fails with StaleNonce and leaves the funds
\* destination and the stored nonce as they were.
C4_StaleAlwaysStaleNonce ==
    /\ ChequeAccepted => lastTx.n > lastTx.before.lastNonce /\ chan.lastNonce = lastTx.n
    /\ ChequeStale =>
          /\ lastTx.err = StaleNonce
          /\ chan.fundsDestination = lastTx.before.fundsDestination
          /\ chan.lastNonce = lastTx.before.lastNonce

\* C4 (amended): a cheque is accepted only with a nonce strictly greater than
\* the last accepted one, which it then replaces; a cheque that repeats the
\* last accepted nonce or goes below it always fails and leaves the funds
\* destination and the stored nonce as they were, with StaleNonce when its
\* new destination is not the zero address and with a revert that carries no
\* reason when it is (the destination is checked before the nonce).
C4_StaleNonceRejected ==
    /\ ChequeAccepted => lastTx.n > lastTx.before.lastNonce /\ chan.lastNonce = lastTx.n
    /\ ChequeSent => chan.lastNonce >= lastTx.before.lastNonce
    /\ ChequeStale =>
          /\ lastTx.err = IF lastTx.to = ZeroAddress THEN "revert" ELSE StaleNonce
          /\ chan.fundsDestination = lastTx.before.fundsDestination
          /\ chan.lastNonce = lastTx.before.lastNonce

\* the cheque the operator signed for a nonce already accepted is sent again
C4_Witness ==
    /\ ChequeStale
    /\ lastTx.signed = "operator"
    /\ lastTx.to = Addr(187)
    /\ lastTx.before.lastNonce > 0
    /\ lastTx.n = lastTx.before.lastNonce
    /\ lastTx.before.fundsDestination = Addr(170)
    /\ lastTx.err = StaleNonce
    /\ chan = lastTx.before

\* the last transaction is a finalizeExit sent while an accepted requestExit
\* was waiting to be finalised
FinalizeOnPending == lastTx.method = "finalizeExit" /\ exitAccepted.wasPending

\* C5: after an accepted requestExit, a finalizeExit sent at a block below the
\* request's timelock fails with ExitNotMatured, pays nothing and changes
\* nothing; one sent at or after the timelock succeeds whoever sends it and
\* pays the channel's whole balance to the beneficiary of that request.
C5_FinalizeExitTimelock ==
    FinalizeOnPending =>
        IF lastTx.number < exitAccepted.timelock
        THEN /\ lastTx.err = ExitNotMatured
             /\ lastTx.paid = NoPayment
             /\ chan = lastTx.before
             /\ exitAccepted.pending
        ELSE /\ lastTx.err = "nil"
             /\ lastTx.paid = [to |-> exitAccepted.beneficiary,
                               amount |-> lastTx.before.balance]
             /\ chan.balance = 0
             /\ ~exitAccepted.pending

\* a sender who is neither the operator nor the beneficiary finalises the
\* exit at the very block of the timelock and the beneficiary is paid
C5_Witness ==
    /\ FinalizeOnPending
    /\ lastTx.number = exitAccepted.timelock
    /\ lastTx.from = AddressOf(2)
    /\ lastTx.err = "nil"
    /\ lastTx.paid = [to |-> Addr(187), amount |-> 100]
    /\ exitAccepted.beneficiary = Addr(187)

(***************************************************************************)
(* Properties of the promise encoding                                      *)
(***************************************************************************)
\* w is the 32-byte big-endian word of n (two's complement below zero),
\* read byte by byte
IsWord(w, n) ==
    /\ Len(w) = 32
    /\ \A i \in 1..29 : w[i] = (IF n >= 0 THEN 0 ELSE 255)
    /\ w[30] * 65536 + w[31] * 256 + w[32] = (IF n >= 0 THEN n ELSE 16777216 + n)

\* the bytes hashed for encArgs.p after the issuer prefix
BodyP == SubSeq(encOut.preP, Len(issuerPrefix) + 1, Len(encOut.preP))

\* C11 (as stated): after the issuer prefix the hashed bytes are the 32-byte
\* word of SeqNo, the 32-byte word of Amount and then the 20 Receiver bytes.
C11_SeqAmountThenAddress ==
    encOut.hashed =>
        /\ HasPrefix(encOut.preP, issuerPrefix)
        /\ Len(BodyP) = 84
        /\ IsWord(SubSeq(BodyP, 1, 32), encArgs.p.SeqNo)
        /\ IsWord(SubSeq(BodyP, 33, 64), encArgs.p.Amount)
        /\ SubSeq(BodyP, 65, 84) = encArgs.p.Receiver

\* C11 (amended): after the issuer prefix the hashed bytes are the 20
\* Receiver bytes, then the 32-byte big-endian word of SeqNo, then the
\* 32-byte big-endian word of Amount: 84 bytes in that order for every promise.
C11_AddressThenSeqAmount ==
    encOut.hashed =>
        /\ HasPrefix(encOut.preP, issuerPrefix)
        /\ Len(BodyP) = 84
        /\ SubSeq(BodyP, 1, 20) = encArgs.p.Receiver
        /\ IsWord(SubSeq(BodyP, 21, 52), encArgs.p.SeqNo)
        /\ IsWord(SubSeq(BodyP, 53, 84), encArgs.p.Amount)

C11_Witness ==
    /\ encOut.hashed
    /\ encArgs.p = [Receiver |-> Addr(187), SeqNo |-> 2, Amount |-> 100]
    /\ Len(encOut.preP) = Len(issuerPrefix) + 84

\* C12: for a promise with a negative SeqNo or Amount, HashBytes yields no
\* hash and SignByPayer no IssuedPromise
C12_NegativeRejected ==
    (encArgs.p.SeqNo < 0 \/ encArgs.p.Amount < 0) =>
        /\ encOut.hashP = Nil
        /\ ~encOut.signed.ptr

\* C13: the bytes hashed for two promises are equal exactly when the
\* promises agree in Receiver, SeqNo and Amount
C13_PreimageInjective ==
    encOut.hashed => ((encOut.preP = encOut.preQ) <=> (encArgs.p = encArgs.q))

\* two promises that differ in the sequence number alone
C13_Witness ==
    /\ encOut.hashed
    /\ encArgs.p.SeqNo # encArgs.q.SeqNo
    /\ encArgs.p.Receiver = encArgs.q.Receiver
    /\ encArgs.p.Amount = encArgs.q.Amount
    /\ encOut.preP # encOut.preQ

(***************************************************************************)
(* Properties of the chain's transitions                                   *)
(***************************************************************************)
ChainSteps ==
    {<<"Unsigned", "IssuerSigned">>, <<"IssuerSigned", "CounterSigned">>,
     <<"Unsigned", "Failed">>, <<"IssuerSigned", "Failed">>}

\* one step of a lane: it stays, fails or takes the next transition; what
\* SignByPayer returned is left as it was; a lane becomes CounterSigned only
\* from IssuerSigned, and its ReceivedPromise then holds, unaltered, the
\* promise and the 65-byte issuer signature the lane already had
ChainStep(lane, next) ==
    /\ lane.stage # next.stage => <<lane.stage, next.stage>> \in ChainSteps
    /\ lane.stage # "Unsigned" => next.issued = lane.issued
    /\ next.stage = "IssuerSigned" =>
          /\ next.issued.ptr
          /\ next.issued.val.Promise = args.promise
          /\ Len(next.issued.val.IssuerSignature) = 65
    /\ (lane.stage # "CounterSigned" /\ next.stage = "CounterSigned") =>
          /\ lane.stage = "IssuerSigned"
          /\ next.received.ptr
          /\ next.received.val.IssuedPromise = lane.issued.val
          /\ Len(lane.issued.val.IssuerSignature) = 65

\* C14: the chain moves a promise only Unsigned -> IssuerSigned (SignByPayer)
\* and IssuerSigned -> CounterSigned (SignByReceiver); no step goes back,
\* leaves the issuer step out or replaces an issuer signature, and every
\* ReceivedPromise holds the issuer signature attached before it
C14_ChainTransitions ==
    [][ChainStep(laneA, laneA') /\ ChainStep(laneB, laneB')]_vars

C14_Witness ==
    /\ laneA.stage = "CounterSigned"
    /\ laneA.received.val.IssuedPromise = laneA.issued.val
    /\ Len(laneA.received.val.ReceiverSignature) = 65
    /\ laneB.stage = "Failed"
    /\ ~laneB.issued.ptr
    /\ ~KeyFails(args.payerB)

(***************************************************************************)
(* Properties of SignByPayer's failure                                     *)
(***************************************************************************)
\* C15: when crypto.Sign fails on the payer's key material, SignByPayer
\* returns the error and a nil IssuedPromise; every IssuedPromise it returns
\* carries a 65-byte signature
C15_SignByPayerFailure ==
    /\ (issuedRes # NoCall /\ KeyFails(issuedBy)) =>
          /\ ~issuedRes.ptr
          /\ issuedRes.err = "SigningError"
          /\ issuedRes.val = NoIssued
    /\ (issuedRes.ptr /\ forged = "none") =>
          /\ issuedRes.err = "nil"
          /\ Len(issuedRes.val.IssuerSignature) = 65

C15_Witness ==
    /\ issuedRes # NoCall
    /\ KeyFails(issuedBy)
    /\ issuedRes.err = "SigningError"

(***************************************************************************)
(* Properties of settlement on malformed signatures                        *)
(***************************************************************************)
\* C16: when the IssuerSignature or the ReceiverSignature of the submitted
\* promise is not 65 bytes long, ClearReceivedPromise returns the
\* decomposition's malformed-signature error and makes no ClearPromise call;
\* the error is that of the issuer signature whenever that one is malformed
C16_MalformedSignatureFails ==
    LET issuer == clearArg.promise.IssuedPromise.IssuerSignature
        counter == clearArg.promise.ReceiverSignature
    IN  /\ (clearOut.called /\ Len(issuer) # 65) =>
              /\ clearOut.err = "MalformedSignature"
              /\ clearOut.at = "issuerSig"
              /\ clearOut.calls = <<>>
        /\ (clearOut.called /\ Len(issuer) = 65 /\ Len(counter) # 65) =>
              /\ clearOut.err = "MalformedSignature"
              /\ clearOut.at = "receiverSig"
              /\ clearOut.calls = <<>>

\* a 66-byte issuer signature with a 64-byte counter-signature
C16_Witness ==
    /\ clearOut.called
    /\ Len(clearArg.promise.IssuedPromise.IssuerSignature) = 66
    /\ Len(clearArg.promise.ReceiverSignature) = 64
    /\ clearOut.at = "issuerSig"
    /\ clearOut.calls = <<>>
    /\ clearCount = 1

(***************************************************************************)
(* Properties of the signature codec                                       *)
(***************************************************************************)
\* C17: recomposing the decomposition of a 65-byte signature gives the
\* signature back, and decomposing the recomposition of (v, r, s) gives
\* (v, r, s) back
C17_CodecRoundTrip ==
    /\ codecOut.fromSignature =>
          /\ codecOut.decomposed.ok
          /\ codecOut.back = codecArg.signature
    /\ codecOut.fromTriple =>
          /\ Len(codecOut.recomposed) = 65
          /\ codecOut.again = [ok |-> TRUE, V |-> codecArg.V, R |-> codecArg.R,
                               S |-> codecArg.S]

C17_Witness ==
    /\ codecOut.fromSignature
    /\ codecOut.fromTriple
    /\ codecArg.signature = U256(1) \o U256(-2) \o <<28>>
    /\ codecOut.decomposed = [ok |-> TRUE, V |-> 28, R |-> U256(1), S |-> U256(-2)]
    /\ codecArg.V = 1

(***************************************************************************)
(* Properties of WithDryRuns                                               *)
(***************************************************************************)
EstimatingMethods ==
    {"TransferMyst", "SettlePromise", "RegisterIdentity", "SettleAndRebalance",
     "SettleWithBeneficiary", "DecreaseProviderStake", "SettleIntoStake",
     "IncreaseProviderStake"}

WriteMethods == {"TransferEth"} \cup EstimatingMethods

\* the positions in the last call's trace where op happened
Positions(op) == {i \in 1..Len(dryOut.trace) : dryOut.trace[i].op = op}

\* C18: in every write method a dry run of the request (by this component's
\* estimator or by the ethereum client) happens before the transaction is
\* sent
C18_DryRunBeforeSend ==
    dryCall.method \in WriteMethods =>
        \A i \in Positions("eth.SendTransaction") :
            \E j \in Positions("estimator.Estimate") \cup Positions("eth.EstimateGas") :
                /\ j < i
                /\ dryOut.trace[j].req = dryOut.trace[i].req

\* what the estimator's error looks like once Estimate has wrapped it
WrappedEstimateErr ==
    IF dryCall.env.estimate.err = NilErr THEN NilErr
    ELSE <<"could not estimate gas">> \o dryCall.env.estimate.err

\* C19 (as stated): Estimate with gas limit 0 returns (0, nil) and neither
\* builds nor calls an estimator; with any other gas limit it builds the
\* estimator, calls it exactly once and returns its gas and its wrapped error
C19_EstimateIffGasLimit ==
    dryCall.method = "Estimate" =>
        IF dryCall.req.gasLimit = 0
        THEN /\ dryOut.gas = 0
             /\ dryOut.err = NilErr
             /\ dryOut.trace = <<>>
        ELSE /\ Cardinality(Positions("toEstimator")) = 1
             /\ Cardinality(Positions("estimator.Estimate")) = 1
             /\ dryOut.gas = dryCall.env.estimate.gas
             /\ dryOut.err = WrappedEstimateErr

\* C19 (amended): Estimate with gas limit 0 returns (0, nil) and neither
\* builds nor calls an estimator; with any other gas limit it builds the
\* estimator once; when building fails it returns (0, that error) and calls
\* no estimator, otherwise it calls the estimator exactly once and returns
\* its gas and its wrapped error
C19_EstimateUnlessBuildFails ==
    dryCall.method = "Estimate" =>
        IF dryCall.req.gasLimit = 0
        THEN /\ dryOut.gas = 0
             /\ dryOut.err = NilErr
             /\ dryOut.trace = <<>>
        ELSE IF dryCall.env.estimatorErr # NilErr
        THEN /\ Cardinality(Positions("toEstimator")) = 1
             /\ Positions("estimator.Estimate") = {}
             /\ dryOut.gas = 0
             /\ dryOut.err = dryCall.env.estimatorErr
        ELSE /\ Cardinality(Positions("toEstimator")) = 1
             /\ Cardinality(Positions("estimator.Estimate")) = 1
             /\ Len(dryOut.trace) = 2
             /\ dryOut.gas = dryCall.env.estimate.gas
             /\ dryOut.err = WrappedEstimateErr

\* an estimate with a gas limit whose estimator reverts
C19_Witness ==
    /\ dryCall.method = "Estimate"
    /\ dryCall.req.gasLimit = 50000
    /\ dryCall.env.estimatorErr = NilErr
    /\ dryOut.err = <<"could not estimate gas", "revert">>
    /\ Len(dryOut.trace) = 2

\* whether Estimate fails for the last call's request
EstimateFails ==
    /\ dryCall.req.gasLimit # 0
    /\ \/ dryCall.env.estimatorErr # NilErr
       \/ dryCall.env.estimate.err # NilErr

\* C20: an estimating write method whose estimate fails returns (nil, error)
\* and does not call the underlying client; one whose estimate succeeds calls
\* the underlying client's method of the same name exactly once with the
\* same request and returns what it returns
C20_WriteFollowsEstimate ==
    dryCall.method \in EstimatingMethods =>
        IF EstimateFails
        THEN /\ dryOut.tx = "nil"
             /\ dryOut.err # NilErr
             /\ Positions("bc") = {}
             /\ Positions("eth.SendTransaction") = {}
        ELSE /\ Cardinality(Positions("bc")) = 1
             /\ \A i \in Positions("bc") :
                    dryOut.trace[i] = Event("bc", dryCall.method, dryCall.req)
             /\ dryOut.tx = dryCall.env.bcRes.tx
             /\ dryOut.err = dryCall.env.bcRes.err

\* SettlePromise with a gas limit whose dry run reverts
C20_Witness ==
    /\ dryCall.method = "SettlePromise"
    /\ dryCall.req.gasLimit = 50000
    /\ dryCall.env.estimatorErr = NilErr
    /\ dryCall.env.estimate.err # NilErr
    /\ dryCall.env.bcRes.err = NilErr
    /\ dryOut.tx = "nil"
    /\ dryOut.err = <<"could not estimate gas", "revert">>

\* C21: a read-only method calls the underlying client's method of the same
\* name exactly once with the same arguments, returns what it returns, and
\* neither builds nor calls an estimator
C21_ReadIsPureProxy ==
    dryCall.method \in ReadMethods =>
        /\ dryOut.trace = <<Event("bc", dryCall.method, dryCall.req)>>
        /\ dryOut.tx = dryCall.env.bcRes.tx
        /\ dryOut.err = dryCall.env.bcRes.err

\* TransactionReceipt asked about two addresses while the estimator would
\* have failed, answered with the underlying client's error
C21_Witness ==
    /\ dryCall.method = "TransactionReceipt"
    /\ dryCall.req # <<>>
    /\ dryCall.env.estimatorErr # NilErr
    /\ dryOut.called
    /\ dryOut.err = <<"send failed">>
    /\ Len(dryOut.trace) = 1

\* the error Estimate returns for the last call, worked out from the call
EstimateErr ==
    IF dryCall.req.gasLimit = 0 THEN NilErr
    ELSE IF dryCall.env.estimatorErr # NilErr THEN dryCall.env.estimatorErr
    ELSE WrappedEstimateErr

\* the root cause of the last call's Estimate error, when it is an rpc.Error
\* with code -32000 whose text has the revert text in it
RevertCauses ==
    {e \in RootErrors :
        /\ EstimateErr # NilErr
        /\ e.name = EstimateErr[Len(EstimateErr)]
        /\ e.rpc
        /\ e.code = -32000
        /\ \E i \in 1..Len(e.message) : e.message[i] = RevertText}

\* C28: DryRun returns nil exactly when Estimate succeeds; when the root
\* cause of the Estimate error is an rpc error with code -32000 whose message
\* has the revert text in it, it returns an ErrorTransactionReverted with
\* that rpc error as Err and, as Reason, the message without its leading
\* revert text and blank; in every other failure it returns the Estimate
\* error as it is
C28_DryRunErrors ==
    dryCall.method = "DryRun" =>
        /\ (dryOut.err = NilErr /\ ~dryOut.reverted.is) <=> (EstimateErr = NilErr)
        /\ \A e \in RevertCauses :
               /\ dryOut.reverted.is
               /\ dryOut.reverted.Err = e.name
               /\ dryOut.reverted.Reason =
                      IF Len(e.message) >= 2 /\ e.message[1] = RevertText
                                             /\ e.message[2] = " "
                      THEN SubSeq(e.message, 3, Len(e.message))
                      ELSE e.message
               /\ dryOut.err = NilErr
        /\ RevertCauses = {} =>
               /\ ~dryOut.reverted.is
               /\ dryOut.err = EstimateErr

\* a dry run with a gas limit whose estimator fails with a ganache revert
C28_Witness ==
    /\ dryCall.method = "DryRun"
    /\ dryCall.req.gasLimit = 50000
    /\ dryOut.reverted = [is |-> TRUE, Err |-> "rpc revert with reason",
                          Reason |-> <<"not allowed">>]
    /\ Len(dryOut.trace) = 2

(***************************************************************************)
(* Properties of the exit request                                          *)
(***************************************************************************)
ExitAlreadyPending == "new exit can be requested only when old one was finalised"

\* C22: after any sequence of requestExit and finalizeExit on the channel at
\* most one accepted exit request has not been finalised, and the channel
\* holds a request exactly when one is outstanding; a requestExit sent while
\* one is outstanding is rejected and changes nothing
C22_OneOutstandingExit ==
    /\ exitAccepted.outstanding \in {0, 1}
    /\ (chan.exitTimelock # 0) <=> (exitAccepted.outstanding = 1)
    /\ (lastTx.method = "requestExit" /\ lastTx.before.exitTimelock # 0) =>
           /\ lastTx.err = ExitAlreadyPending
           /\ chan = lastTx.before

\* a well-signed second request for another beneficiary, sent while the
\* first is outstanding
C22_Witness ==
    /\ lastTx.method = "requestExit"
    /\ lastTx.signed = "operator"
    /\ lastTx.before.exitTimelock # 0
    /\ lastTx.to # ZeroAddress
    /\ lastTx.to # lastTx.before.exitBeneficiary
    /\ lastTx.n > lastTx.number
    /\ lastTx.n < GetTimelock(lastTx.number)
    /\ exitAccepted.outstanding = 1

\* C23 (as stated): requestExit is accepted, and starts the timelock, only
\* with the operator's signature over (beneficiary, validUntil); with a
\* signature of another key or over other values it is rejected and the
\* channel is left as it was
C23_ExitNeedsOperatorSignature ==
    lastTx.method = "requestExit" =>
        /\ lastTx.err = "nil" =>
               /\ lastTx.signed = "operator"
               /\ chan.exitTimelock = GetTimelock(lastTx.number)
               /\ chan.exitBeneficiary = lastTx.to
        /\ lastTx.signed # "operator" =>
               /\ lastTx.err # "nil"
               /\ chan = lastTx.before

\* C23 (amended): requestExit is accepted, and starts the timelock, only
\* when it is sent by the operator or carries the operator's signature over
\* (beneficiary, validUntil); sent by anyone else with a signature of
\* another key or over other values it is rejected and the channel is left
\* as it was
C23_ExitNeedsOperator ==
    lastTx.method = "requestExit" =>
        /\ lastTx.err = "nil" =>
               /\ lastTx.from = Operator \/ lastTx.signed = "operator"
               /\ chan.exitTimelock = GetTimelock(lastTx.number)
               /\ chan.exitBeneficiary = lastTx.to
        /\ (lastTx.from # Operator /\ lastTx.signed # "operator") =>
               /\ lastTx.err # "nil"
               /\ chan = lastTx.before

\* another sender's request, in the window and for a beneficiary, is rejected
\* for its signature alone: it is the operator's, but over another validUntil
C23_Witness ==
    /\ lastTx.method = "requestExit"
    /\ lastTx.from # Operator
    /\ lastTx.signed = "replayed"
    /\ lastTx.err = "have to be signed by operator"
    /\ chan = lastTx.before
    /\ chan.exitTimelock = 0

(***************************************************************************)
(* Properties of ReconnectableEthClient                                    *)
(***************************************************************************)
Returned(g, op) == goroutines[g].op = op /\ goroutines[g].pc = "out"

\* C25: whatever the interleaving, a Client() call that has returned has
\* returned the client that is installed at that moment, which is not nil
\* and has not been closed
C25_ClientReturnsCurrent ==
    \A g \in Goroutines :
        Returned(g, "Client") =>
            /\ goroutines[g].ret # NilClient
            /\ goroutines[g].ret = goroutines[g].currentAtReturn
            /\ ~goroutines[g].closedAtReturn

\* C29: a Reconnect whose dial failed has returned an error and has left
\* the installed client in place and every client as closed or open as it
\* was; a Client() call that ran while that client was still the latest
\* dialled one got that same client
C29_FailedReconnectChangesNothing ==
    \A g \in Goroutines :
        (goroutines[g].op = "Reconnect" /\ goroutines[g].pc \in {"unlocked", "out"}
           /\ Len(goroutines[g].after.world) = Len(goroutines[g].before.world)) =>
            /\ goroutines[g].err # NilErr
            /\ goroutines[g].after = goroutines[g].before
            /\ \A h \in Goroutines :
                   (goroutines[h].op = "Client" /\ goroutines[h].pc \in {"unlocked", "out"}
                      /\ Len(goroutines[h].before.world) = Len(goroutines[g].before.world)) =>
                       goroutines[h].ret = goroutines[g].before.client

\* a failed Reconnect and a later Client() that returned the old client,
\* still open
C29_Witness ==
    /\ Returned(1, "Reconnect")
    /\ goroutines[1].err = <<"ethereum client failed to dial", "dial failed">>
    /\ Returned(2, "Client")
    /\ goroutines[2].ret = goroutines[1].before.client
    /\ world[goroutines[2].ret] = 0
    /\ reconnects >= 2

C27_LastClearedNeverLowers ==
    [][\A sender \in Senders, receiver \in Receivers :
          ~Less(LastClearedPromise(cleared', sender, receiver, "nil").seq,
                LastClearedPromise(cleared, sender, receiver, "nil").seq)]_vars

\* sequence number 1 was submitted after 2 had been cleared on the channel,
\* and LastClearedPromise still answers 2
C27_Witness ==
    /\ clearOut.called
    /\ clearOut.calls # <<>>
    /\ clearArg.promise.IssuedPromise.Promise.SeqNo = 1
    /\ clearOut.err = "revert"
    /\ lastCleared.err = "nil"
    /\ lastCleared.sender = AddressOf(clearArg.payer)
    /\ lastCleared.receiver = clearArg.promise.IssuedPromise.Promise.Receiver
    /\ lastCleared.seq = <<0, 0, 0, 0, 0, 0, 0, 2>>
    /\ cleared[<<lastCleared.sender, lastCleared.receiver>>] = U256(2)

(***************************************************************************)
(* Properties of the event iterators                                       *)
(***************************************************************************)
\* C26: once a Next has returned false for a subscription error or for a
\* log that did not unpack, Error() returns that error, and Next keeps
\* returning false without taking a log
C26_IteratorFailureSticks ==
    lastNext.failure # "nil" =>
        /\ Error(iter) = lastNext.failure
        /\ ~lastNext.ret
        /\ lastNext.cause = "none" =>
               /\ lastNext.read = <<>>
               /\ lastNext.logsAfter = lastNext.logsBefore

\* Next was called again after the subscription had failed, with a log
\* still waiting
C26_Witness ==
    /\ lastNext.called
    /\ lastNext.failure = "subscription failed"
    /\ lastNext.cause = "none"
    /\ lastNext.logsBefore # <<>>
    /\ iter.event = "ExitRequested"

\* a step that is one call of Next
NextCalled == delivered' = delivered /\ (lastNext' # lastNext \/ iter' # iter)

\* how often the call read sub.Err(), which it does right before it calls
\* itself
Recursions(read) == Cardinality({i \in DOMAIN read : read[i] = "err"})

\* A call of Next once the subscription has closed without an error: it
\* does not wait, takes the oldest waiting log or finds none, and calls
\* itself at most once.  every: whether a log that does not unpack is
\* handed out like the others.
NextAfterCompletion(every) ==
    (NextCalled /\ subErr = "closed" /\ iter.fail # "subscription failed") =>
        /\ ~Blocks(iter, logs, subErr)
        /\ Recursions(lastNext'.read) <= 1
        /\ IF iter.fail # "nil" /\ ~every
           THEN ~lastNext'.ret /\ logs' = logs /\ iter' = iter
           ELSE IF logs = <<>>
           THEN ~lastNext'.ret /\ Error(iter') = "nil" /\ logs' = <<>>
           ELSE IF every \/ Head(logs).unpacks
           THEN /\ lastNext'.ret
                /\ iter'.Event = Head(logs)
                /\ logs' = Tail(logs)
                /\ Error(iter') = "nil"
           ELSE /\ ~lastNext'.ret
                /\ Error(iter') = "unpack failed"
                /\ logs' = Tail(logs)

\* C31 as stated: once the subscription has completed without error, Next
\* never blocks, hands out every log still waiting, in order and one per
\* call, then returns false with Error() nil, and calls itself at most once
C31_DrainsEveryLog == [][NextAfterCompletion(TRUE)]_vars

\* C31: once the subscription has completed without error, Next never
\* blocks; it hands out the waiting logs in order, one per call, up to the
\* first that does not unpack, at which it fails and stops; with none
\* waiting it returns false, Error() nil; it calls itself at most once
C31_DrainsUntilUnpackFails == [][NextAfterCompletion(FALSE)]_vars

\* Next found the subscription closed with two logs waiting, called itself
\* and handed out the older one
C31_Witness ==
    /\ lastNext.called
    /\ lastNext.waiting = "closed"
    /\ lastNext.read = <<"err", "log">>
    /\ lastNext.ret
    /\ Len(lastNext.logsBefore) = 2
    /\ iter.Event = Head(lastNext.logsBefore)
    /\ iter.done
    /\ Error(iter) = "nil"

(***************************************************************************)
(* Properties of the Watch loops                                           *)
(***************************************************************************)
\* the loop has returned with the deferred Unsubscribe run and with the
\* value of the case it left by
ExitedRight ==
    watch.pc = "returned" =>
        /\ watch.unsubscribed
        /\ watch.exit = "quit" => watch.ret = "nil"
        /\ watch.exit = "err" => watch.ret \in {"subscription failed", "nil"}
        /\ watch.exit = "log" => watch.ret = "unpack failed"
        /\ watch.exit \in {"quit", "err", "log"}

\* a step of the loop that is blocked sending to a full sink, with quit
\* closed or the log subscription ended: it returns, and returns the error
\* if it takes the subscription's case
LeavesFullSink ==
    (/\ watch.pc = "sending"
     /\ ~sinkRoom
     /\ quit \/ wsub # "open"
     /\ watch' # watch) =>
        /\ watch'.pc = "returned"
        /\ watch'.exit = "err" => watch'.ret = ErrRead(wsub)

InOrderOnce ==
    \A i, j \in DOMAIN sunk : i < j => sunk[i].id < sunk[j].id

\* A step forwards at most the one event the loop holds; a loop that has
\* returned forwards nothing; the event held when the loop returns is not
\* forwarded.  strict: nothing is forwarded once quit is closed either.
Forwarding(strict) ==
    /\ sunk' # sunk =>
          /\ watch.pc = "sending"
          /\ sunk' = Append(sunk, watch.pending)
          /\ watch'.pc = "select"
          /\ strict => ~quit
    /\ watch.pc = "returned" => sunk' = sunk /\ watch' = watch
    /\ (watch.pc = "sending" /\ watch'.pc = "returned") =>
          /\ sunk' = sunk
          /\ \A i \in DOMAIN sunk : sunk[i].id < watch.pending.id
    /\ InOrderOnce'

\* C33 as stated: events reach the sink in the order of their logs, each at
\* most once; nothing is forwarded after quit was signalled or after the
\* loop returned an error; an event the loop holds when quit or a
\* subscription error wins is dropped
C33_NothingAfterQuit == [][Forwarding(TRUE)]_vars

\* C33: events reach the sink in the order of their logs, each at most
\* once; nothing is forwarded after the loop has returned, on quit or with
\* an error; an event the loop holds when quit or a subscription error
\* wins is dropped
C33_NothingAfterReturn == [][Forwarding(FALSE)]_vars

\* one event was forwarded, the next was in hand when the subscription's
\* error won, and a third log is left in the channel
C33_Witness ==
    /\ watch.pc = "returned"
    /\ watch.exit = "err"
    /\ watch.ret = "subscription failed"
    /\ Len(sunk) = 1
    /\ sunk[1].id = 1
    /\ Len(wlogs) = 1
    /\ wlogs[1].id = 3
    /\ watch.event = "PromiseSettled"

(***************************************************************************)
(* Properties of concurrent signing                                        *)
(***************************************************************************)
\* what the call returns when it runs alone
Alone(call) ==
    IF call.op = "HashBytes" THEN HashBytes(call.promise)
    ELSE IF call.op = "SignByPayer" THEN SignByPayer(call.promise, call.key)
    ELSE SignByReceiver(call.promise, call.key, TRUE)

\* C24: however the statements of two calls interleave, no input is changed
\* and each call that has returned has returned what it returns alone
C24_ConcurrentCallsIndependent ==
    \A g \in DOMAIN frames :
        /\ inputs[g] = given[g]
        /\ frames[g].pc = "returned" => frames[g].out = Alone(given[g])

\* both calls have returned after the first had hashed and before it signed
\* while the second ran: here a SignByReceiver and a SignByPayer of
\* different promises
C24_Witness ==
    /\ DOMAIN frames = Goroutines
    /\ frames[1].pc = "returned"
    /\ frames[2].pc = "returned"
    /\ given[1].op = "SignByReceiver"
    /\ given[2].op = "SignByPayer"
    /\ given[1].promise.Promise # given[2].promise
    /\ frames[1].out.ptr
    /\ frames[2].out.ptr

(***************************************************************************)
(* A RegisterIdentities call on every short list of identities             *)
(***************************************************************************)
IdentityLists ==
    UNION {[1..n -> Identities] : n \in 0..MaxIdentities}

RegInit ==
    /\ SignIdle
    /\ PairIdle
    /\ ClearIdle
    /\ ChanIdle
    /\ EncIdle
    /\ CodecIdle
    /\ DryIdle
    /\ ConnIdle
    /\ LedgerIdle
    /\ IterIdle
    /\ ParIdle
    /\ WatchIdle
    /\ regArgs \in [clearer : Clearers, identities : IdentityLists]
    /\ regOut = NoRegOut

DoRegisterIdentities ==
    LET out == RegisterIdentities(regArgs.clearer, regArgs.identities)
    IN  /\ ~regOut.called
        /\ regOut' = [called |-> TRUE, err |-> out.err, created |-> out.created,
                      calls |-> out.calls]
        /\ UNCHANGED regArgs
        /\ UNCHANGED <<signVars, pairVars, clearVars, chanVars, encVars, codecVars,
                       dryVars, connVars, ledgerVars, iterVars, parVars, watchVars>>

RegNext == DoRegisterIdentities

RegSpec == RegInit /\ [][RegNext]_vars

(***************************************************************************)
(* Properties of RegisterIdentities                                        *)
(***************************************************************************)
\* the position of the first identity for which the registry or the ledger
\* fails, 0 when there is none
FirstFailure(identities) ==
    LET failing == {i \in 1..Len(identities) :
                       identities[i].data # "nil" \/ identities[i].ledger # "nil"}
    IN  IF failing = {} THEN 0
        ELSE CHOOSE i \in failing : \A j \in failing : i <= j

\* C34: RegisterIdentities goes through the identities in order and stops at
\* the first failure, returning its error: every identity before it was
\* submitted exactly once, none after it was created or submitted, and nil
\* is returned only when every identity was submitted
C34_StopsAtFirstFailure ==
    regOut.called =>
        LET identities == regArgs.identities
            k == FirstFailure(identities)
            last == IF k = 0 THEN Len(identities) ELSE k
            sent == IF k # 0 /\ identities[k].data # "nil" THEN k - 1 ELSE last
        IN  /\ regOut.err = IF k = 0 THEN "nil"
                            ELSE IF identities[k].data # "nil" THEN identities[k].data
                            ELSE identities[k].ledger
            /\ (regOut.err = "nil") => (Len(regOut.calls) = Len(identities))
            /\ Len(regOut.created) = last
            /\ \A i \in 1..last : regOut.created[i].at = i
            /\ Len(regOut.calls) = sent
            /\ \A i \in 1..sent :
                   /\ regOut.calls[i].at = i
                   /\ regOut.calls[i].identity = identities[i].key

\* the ledger refused the second of three identities, the third is one the
\* registry and the ledger would have accepted
C34_Witness ==
    /\ regOut.called
    /\ Len(regArgs.identities) = 3
    /\ regArgs.identities[1].data = "nil" /\ regArgs.identities[1].ledger = "nil"
    /\ regArgs.identities[2].data = "nil" /\ regArgs.identities[2].ledger = "ErrLedger"
    /\ regArgs.identities[3].data = "nil" /\ regArgs.identities[3].ledger = "nil"
    /\ regOut.err = "ErrLedger"
    /\ Len(regOut.calls) = 2

(***************************************************************************)
(* Properties of the signing functions as frame conditions                 *)
(***************************************************************************)
\* the IssuedPromise a lane got from SignByPayer carries the fields of the
\* promise it was given
IssuedKeepsPromise(lane) ==
    lane.issued.ptr =>
        /\ lane.issued.val.Promise.Receiver = args.promise.Receiver
        /\ lane.issued.val.Promise.SeqNo = args.promise.SeqNo
        /\ lane.issued.val.Promise.Amount = args.promise.Amount

\* the ReceivedPromise a lane got from SignByReceiver carries the fields and
\* the issuer signature of the IssuedPromise it was given, which the lane
\* still holds as it was
ReceivedKeepsIssued(lane) ==
    lane.received.ptr =>
        /\ lane.issued.ptr
        /\ lane.received.val.IssuedPromise.Promise.Receiver = lane.issued.val.Promise.Receiver
        /\ lane.received.val.IssuedPromise.Promise.SeqNo = lane.issued.val.Promise.SeqNo
        /\ lane.received.val.IssuedPromise.Promise.Amount = lane.issued.val.Promise.Amount
        /\ lane.received.val.IssuedPromise.IssuerSignature = lane.issued.val.IssuerSignature

\* C35: SignByPayer returns an IssuedPromise with the Receiver, SeqNo and
\* Amount of its input, SignByReceiver a ReceivedPromise with the Receiver,
\* SeqNo, Amount and IssuerSignature of its input; each only adds a signature
C35_SigningOnlyAddsSignature ==
    /\ IssuedKeepsPromise(laneA)
    /\ IssuedKeepsPromise(laneB)
    /\ ReceivedKeepsIssued(laneA)
    /\ ReceivedKeepsIssued(laneB)

\* lane A went through both functions, lane B through SignByPayer with
\* another key
C35_Witness ==
    /\ laneA.issued.ptr
    /\ laneA.received.ptr
    /\ laneB.issued.ptr
    /\ ~laneB.received.ptr
    /\ args.payerA # args.payerB
    /\ args.promise.Amount = 90

====
